---- MODULE Spec2Model ----
(***************************************************************************)
(* Sphere::create (src/src/dawn/samples/Sphere.cpp) and its consumer       *)
(* HelloMeshSample (src/src/dawn/samples/HelloMesh.cpp) as a state         *)
(* machine.                                                                *)
(*                                                                         *)
(* A float is modelled bit for bit as an IEEE-754 binary32 value, written  *)
(* <<s, e, m>>: sign s, and magnitude m * 2^e with 2^23 <= m < 2^24 for a  *)
(* normal number (m < 2^23 and e = -149 for a subnormal, <<s, 0, 0>> for a *)
(* zero, <<s, 255, 0>> for an infinity, <<0, 255, 1>> for a NaN).  The     *)
(* arithmetic rounds to nearest, ties to even, one operation at a time     *)
(* (no fused multiply-add).  All intermediate integers stay below 2^31.    *)
(***************************************************************************)
EXTENDS Integers, Sequences, FiniteSets, TLC

\* ------------------------------------------------------------------------
\* binary32 arithmetic

\* powers of two up to 2^30
Pow2Table == [n \in 0..30 |-> 2 ^ n]

Pow2(n) == Pow2Table[n]

Max(a, b) == IF a >= b THEN a ELSE b

\* number of significant bits of the values below 256
BitLen8 == [i \in 0..255 |->
              IF i = 0 THEN 0 ELSE CHOOSE n \in 1..8 : 2 ^ (n - 1) <= i /\ i < 2 ^ n]

\* number of significant bits of x, 0 <= x < 2^31
BitLen(x) == IF x < 256 THEN BitLen8[x]
             ELSE IF x < 65536 THEN 8 + BitLen8[x \div 256]
             ELSE IF x < 16777216 THEN 16 + BitLen8[x \div 65536]
             ELSE 24 + BitLen8[x \div 16777216]

\* least exponent of a binary32 significand (subnormals and the least normal)
EMin == -126 - 23
\* greatest exponent of a finite binary32 significand
EMax == 127 - 23
\* exponent field of infinities and NaNs
ESpecial == 255

NaN == <<0, ESpecial, 1>>
Inf(s) == <<s, ESpecial, 0>>
Zero(s) == <<s, 0, 0>>

IsNaN(a) == a[2] = ESpecial /\ a[3] # 0
IsInf(a) == a[2] = ESpecial /\ a[3] = 0
IsZero(a) == a[2] # ESpecial /\ a[3] = 0
IsFinite(a) == a[2] # ESpecial

\* the binary32 nearest to (-1)^s * (X + f) * 2^e, where 0 <= X < 2^31 and
\* 0 < f < 1 when sticky, f = 0 otherwise; ties to even
RoundPack(s, X, sticky, e) ==
    LET \* significand m at exponent x, after rounding: a carry to 2^24 moves
        \* it into the next binade
        Packed(x, m) ==
            IF m = 0 THEN Zero(s)
            ELSE IF m = Pow2(24)
                 THEN (IF x + 1 > EMax THEN Inf(s) ELSE <<s, x + 1, Pow2(23)>>)
            ELSE IF x > EMax THEN Inf(s)
            ELSE <<s, x, m>>
        \* q units, and a rest of r (+f) to compare with half a unit
        Nearest(x, q, r, half) ==
            IF r > half \/ (r = half /\ (sticky \/ q % 2 = 1))
            THEN Packed(x, q + 1)
            ELSE Packed(x, q)
        \* X has L bits and loses its low sh bits
        Shifted(L, sh) ==
            IF sh <= 0
            THEN IF e + sh > EMax THEN Inf(s)
                 ELSE <<s, e + sh, X * Pow2(-sh)>>
            ELSE IF sh > L + 1 THEN Zero(s)
            ELSE IF sh >= 31
                 THEN IF sh = 31 /\ (X > Pow2(30) \/ (X = Pow2(30) /\ sticky))
                      THEN Packed(e + sh, 1)
                      ELSE Zero(s)
            ELSE Nearest(e + sh, X \div Pow2(sh), X % Pow2(sh), Pow2(sh - 1))
        Sized(L) == Shifted(L, Max(L - 24, EMin - e))
    IN  IF X = 0 THEN Zero(s) ELSE Sized(BitLen(X))

\* static_cast<float>(n) of an int n, |n| < 2^31
IntToFloat(n) == IF n < 0 THEN RoundPack(1, -n, FALSE, 0)
                 ELSE RoundPack(0, n, FALSE, 0)

FNeg(a) == IF IsNaN(a) THEN NaN ELSE <<1 - a[1], a[2], a[3]>>

\* a * b, rounded once
FMul(a, b) ==
    LET s == (a[1] + b[1]) % 2
        \* the product is hi * 2^24 + lo; its top (up to) 30 bits are kept
        Kept(hi, lo, k) ==
            RoundPack(s, hi * Pow2(24 - k) + lo \div Pow2(k),
                      lo % Pow2(k) # 0, a[2] + b[2] + k)
        Wide(hi, lo) == Kept(hi, lo, Max(0, BitLen(hi) - 6))
        Carried(high, low) == Wide(high + low \div Pow2(24), low % Pow2(24))
        Summed(high, mid, low) ==
            Carried(high + mid \div 4096, low + (mid % 4096) * 4096)
        \* the significands in limbs of 12 bits
        Limbs(a1, a0, b1, b0) == Summed(a1 * b1, a1 * b0 + a0 * b1, a0 * b0)
    IN  IF IsNaN(a) \/ IsNaN(b) THEN NaN
        ELSE IF IsInf(a) \/ IsInf(b)
             THEN IF IsZero(a) \/ IsZero(b) THEN NaN ELSE Inf(s)
        ELSE IF IsZero(a) \/ IsZero(b) THEN Zero(s)
        ELSE Limbs(a[3] \div 4096, a[3] % 4096, b[3] \div 4096, b[3] % 4096)

\* a + b, rounded once
FAdd(a, b) ==
    LET aBig == a[2] > b[2] \/ (a[2] = b[2] /\ a[3] >= b[3])
        Rounded(x, st, X) ==
            IF X = 0 /\ ~st THEN Zero(0)
            ELSE RoundPack(x[1], X, st, x[2] - 6)
        \* A and B (+ a fraction when st) are the two magnitudes in units
        \* of 2^(x[2] - 6)
        Joined(x, y, A, B, st) ==
            Rounded(x, st, IF x[1] = y[1] THEN A + B
                           ELSE IF st THEN A - B - 1 ELSE A - B)
        Aligned(x, y, d) ==
            Joined(x, y, x[3] * 64,
                   IF d >= 31 THEN 0 ELSE (y[3] * 64) \div Pow2(d),
                   IF d >= 31 THEN TRUE ELSE (y[3] * 64) % Pow2(d) # 0)
        \* x is the operand of greater magnitude
        Ordered(x, y) == Aligned(x, y, x[2] - y[2])
    IN  IF IsNaN(a) \/ IsNaN(b) THEN NaN
        ELSE IF IsInf(a)
             THEN IF IsInf(b) /\ a[1] # b[1] THEN NaN ELSE a
        ELSE IF IsInf(b) THEN b
        ELSE IF IsZero(a) /\ IsZero(b)
             THEN IF a[1] = 1 /\ b[1] = 1 THEN Zero(1) ELSE Zero(0)
        ELSE IF IsZero(a) THEN b
        ELSE IF IsZero(b) THEN a
        ELSE Ordered(IF aBig THEN a ELSE b, IF aBig THEN b ELSE a)

FSub(a, b) == FAdd(a, FNeg(b))

\* significand and exponent of a finite nonzero value with the significand
\* brought into [2^23, 2^24)
Normalized(a) ==
    LET up == 24 - BitLen(a[3])
    IN  <<a[3] * Pow2(up), a[2] - up>>

RECURSIVE DivDigits(_, _, _, _)
\* n more base-64 digits of r / d (r < d < 2^24) appended to q
DivDigits(r, d, n, q) ==
    IF n = 0 THEN <<q, r>>
    ELSE DivDigits((r * 64) % d, d, n - 1, q * 64 + (r * 64) \div d)

\* a / b, rounded once
FDiv(a, b) ==
    LET s == (a[1] + b[1]) % 2
        \* qr: floor(ma * 2^30 / mb) < 2^31 and the remainder left
        Divided(qr, x) == RoundPack(s, qr[1], qr[2] # 0, x)
        Quotient(na, nb) ==
            Divided(DivDigits(na[1] % nb[1], nb[1], 5, na[1] \div nb[1]),
                    na[2] - nb[2] - 30)
    IN  IF IsNaN(a) \/ IsNaN(b) THEN NaN
        ELSE IF IsInf(a) THEN (IF IsInf(b) THEN NaN ELSE Inf(s))
        ELSE IF IsInf(b) THEN Zero(s)
        ELSE IF IsZero(b) THEN (IF IsZero(a) THEN NaN ELSE Inf(s))
        ELSE IF IsZero(a) THEN Zero(s)
        ELSE Quotient(Normalized(a), Normalized(b))

RECURSIVE SqrtBits(_, _, _, _)
\* digit-by-digit square root: consume the n remaining bit pairs of the
\* radicand (top pairs taken from rad, which holds 2*(n - 14) bits, then
\* fourteen pairs of zeros), extending root and remainder rem
SqrtBits(rad, n, root, rem) ==
    IF n = 0 THEN <<root, rem>>
    ELSE LET pair  == IF n > 14
                      THEN (rad \div Pow2(2 * (n - 15))) % 4
                      ELSE 0
             cur   == rem * 4 + pair
             trial == 4 * root + 1
         IN  IF cur >= trial
             THEN SqrtBits(rad, n - 1, 2 * root + 1, cur - trial)
             ELSE SqrtBits(rad, n - 1, 2 * root, cur)

\* std::sqrt(float), correctly rounded
FSqrt(a) ==
    LET Rooted(rr, x) == RoundPack(0, rr[1], rr[2] # 0, x)
        \* sqrt(m * 2^28), m < 2^26: 13 pairs of m, 14 pairs of zeros
        Root(m, e) == Rooted(SqrtBits(m, 27, 0, 0), (e - 28) \div 2)
        \* the exponent made even
        Even(na) == IF na[2] % 2 # 0 THEN Root(na[1] * 2, na[2] - 1)
                    ELSE Root(na[1], na[2])
    IN  IF IsNaN(a) THEN NaN
        ELSE IF IsZero(a) THEN a
        ELSE IF a[1] = 1 THEN NaN
        ELSE IF IsInf(a) THEN a
        ELSE Even(Normalized(a))

\* a > b on floats (false when either is a NaN)
FGt(a, b) ==
    IF IsNaN(a) \/ IsNaN(b) THEN FALSE
    ELSE IF IsZero(a) /\ IsZero(b) THEN FALSE
    ELSE LET mag(x, y) == \* |x| > |y|
                 IF IsInf(x) THEN ~IsInf(y)
                 ELSE IF IsInf(y) THEN FALSE
                 ELSE IF IsZero(x) THEN FALSE
                 ELSE IF IsZero(y) THEN TRUE
                 ELSE x[2] > y[2] \/ (x[2] = y[2] /\ x[3] > y[3])
             neg(x) == x[1] = 1 /\ ~IsZero(x)
         IN  IF neg(a) /\ ~neg(b) THEN FALSE
             ELSE IF ~neg(a) /\ neg(b) THEN TRUE
             ELSE IF neg(a) THEN mag(b, a)
             ELSE mag(a, b)

\* a == b on floats (+0 equals -0, a NaN equals nothing)
FEq(a, b) ==
    /\ ~IsNaN(a) /\ ~IsNaN(b)
    /\ (a = b \/ (IsZero(a) /\ IsZero(b)))

\* ------------------------------------------------------------------------
\* float literals and library functions of Sphere.cpp

\* 0.0f, 1.0f, 2.0f, 0.5f
FZero == Zero(0)
FOne == <<0, -23, 8388608>>
FTwo == <<0, -22, 8388608>>
FHalf == <<0, -24, 8388608>>
\* static_cast<float>(M_PI) = 0x40490fdb
FPi == <<0, -22, 13176795>>
\* 1e-8f = 0x322bcc77
FEpsilon == <<0, -50, 11258999>>

\* std::cos(float) and std::sin(float) at every angle u*pi*2 (u = ix/W) and
\* v*pi (v = iy/H) that arises for W in 1..8 or 32 and H in 1..8 or 16:
\* <<angle, cos(angle), sin(angle)>> as glibc's cosf and sinf return them
TrigRows == <<
         <<<<0,0,0>>, <<0,-23,8388608>>, <<0,0,0>>>>
       , <<<<0,-26,13176795>>, <<0,-24,16454846>>, <<0,-26,13092290>>>>
       , <<<<0,-25,13176795>>, <<0,-24,15500126>>, <<0,-25,12840726>>>>
       , <<<<0,-25,15059195>>, <<0,-24,15115749>>, <<0,-25,14558723>>>>
       , <<<<0,-24,8784530>>, <<0,-24,14529495>>, <<0,-24,8388608>>>>
       , <<<<0,-24,9882596>>, <<0,-24,13949745>>, <<0,-24,9320922>>>>
       , <<<<0,-24,10541436>>, <<0,-24,13573053>>, <<0,-24,9861400>>>>
       , <<<<0,-24,13176795>>, <<0,-24,11863283>>, <<0,-24,11863283>>>>
       , <<<<0,-24,15059195>>, <<0,-24,10460422>>, <<0,-24,13116956>>>>
       , <<<<0,-24,16470994>>, <<0,-24,9320921>>, <<0,-24,13949746>>>>
       , <<<<0,-23,8784530>>, <<0,-25,16777215>>, <<0,-24,14529496>>>>
       , <<<<0,-23,9882596>>, <<0,-25,12840725>>, <<0,-24,15500126>>>>
       , <<<<0,-23,10541436>>, <<0,-25,10368889>>, <<0,-24,15956081>>>>
       , <<<<0,-23,11294396>>, <<0,-26,14933122>>, <<0,-24,16356576>>>>
       , <<<<0,-23,11529696>>, <<0,-26,13092284>>, <<0,-24,16454847>>>>
       , <<<<0,-23,13176795>>, <<1,-48,12303662>>, <<0,-23,8388608>>>>
       , <<<<0,-23,14823894>>, <<1,-26,13092290>>, <<0,-24,16454846>>>>
       , <<<<0,-23,15059195>>, <<1,-26,14933136>>, <<0,-24,16356576>>>>
       , <<<<0,-23,15812155>>, <<1,-25,10368895>>, <<0,-24,15956080>>>>
       , <<<<0,-23,16470994>>, <<1,-25,12840728>>, <<0,-24,15500126>>>>
       , <<<<0,-22,8784530>>, <<1,-24,8388609>>, <<0,-24,14529495>>>>
       , <<<<0,-22,9059047>>, <<1,-24,9320924>>, <<0,-24,13949744>>>>
       , <<<<0,-22,9411997>>, <<1,-24,10460426>>, <<0,-24,13116954>>>>
       , <<<<0,-22,9882596>>, <<1,-24,11863283>>, <<0,-24,11863283>>>>
       , <<<<0,-22,10541436>>, <<1,-24,13573054>>, <<0,-24,9861399>>>>
       , <<<<0,-22,10706146>>, <<1,-24,13949746>>, <<0,-24,9320921>>>>
       , <<<<0,-22,10980662>>, <<1,-24,14529495>>, <<0,-24,8388609>>>>
       , <<<<0,-22,11294396>>, <<1,-24,15115750>>, <<0,-25,14558718>>>>
       , <<<<0,-22,11529696>>, <<1,-24,15500128>>, <<0,-25,12840720>>>>
       , <<<<0,-22,12353245>>, <<1,-24,16454847>>, <<0,-26,13092289>>>>
       , <<<<0,-22,13176795>>, <<1,-23,8388608>>, <<1,-47,12303662>>>>
       , <<<<0,-22,14000345>>, <<1,-24,16454846>>, <<1,-26,13092301>>>>
       , <<<<0,-22,14823894>>, <<1,-24,15500126>>, <<1,-25,12840725>>>>
       , <<<<0,-22,15059195>>, <<1,-24,15115747>>, <<1,-25,14558731>>>>
       , <<<<0,-22,15647444>>, <<1,-24,13949744>>, <<1,-24,9320923>>>>
       , <<<<0,-22,15812155>>, <<1,-24,13573049>>, <<1,-24,9861405>>>>
       , <<<<0,-22,16470994>>, <<1,-24,11863281>>, <<1,-24,11863285>>>>
       , <<<<0,-21,8647272>>, <<1,-24,9320918>>, <<1,-24,13949748>>>>
       , <<<<0,-21,8784530>>, <<1,-25,16777213>>, <<1,-24,14529496>>>>
       , <<<<0,-21,9059047>>, <<1,-25,12840715>>, <<1,-24,15500129>>>>
       , <<<<0,-21,9411997>>, <<1,-26,14933101>>, <<1,-24,16356578>>>>
       , <<<<0,-21,9470821>>, <<1,-26,13092294>>, <<1,-24,16454846>>>>
       , <<<<0,-21,9882596>>, <<0,-50,13426222>>, <<1,-23,8388608>>>>
       , <<<<0,-21,10294371>>, <<0,-26,13092296>>, <<1,-24,16454846>>>>
       , <<<<0,-21,10541436>>, <<0,-25,10368894>>, <<1,-24,15956080>>>>
       , <<<<0,-21,10706146>>, <<0,-25,12840731>>, <<1,-24,15500125>>>>
       , <<<<0,-21,10980662>>, <<0,-25,16777213>>, <<1,-24,14529496>>>>
       , <<<<0,-21,11117921>>, <<0,-24,9320925>>, <<1,-24,13949743>>>>
       , <<<<0,-21,11294396>>, <<0,-24,10460427>>, <<1,-24,13116953>>>>
       , <<<<0,-21,11529696>>, <<0,-24,11863287>>, <<1,-24,11863279>>>>
       , <<<<0,-21,11941470>>, <<0,-24,13949745>>, <<1,-24,9320923>>>>
       , <<<<0,-21,12353245>>, <<0,-24,15500127>>, <<1,-25,12840725>>>>
       , <<<<0,-21,12765020>>, <<0,-24,16454847>>, <<1,-26,13092284>>>>
       , <<<<0,-21,13176795>>, <<0,-23,8388608>>, <<0,-46,12303662>>>>
    >>

TrigTable == [a \in {TrigRows[i][1] : i \in 1..Len(TrigRows)} |->
                LET i == CHOOSE j \in 1..Len(TrigRows) : TrigRows[j][1] = a
                IN  <<TrigRows[i][2], TrigRows[i][3]>>]

Cosf(a) == IF ~IsFinite(a) THEN NaN ELSE TrigTable[a][1]
Sinf(a) == IF ~IsFinite(a) THEN NaN ELSE TrigTable[a][2]

\* the seed of line 37
Seed == 12345

\* the first values dist(rng) returns for std::mt19937 rng(12345) and
\* std::uniform_real_distribution<float> dist(-0.5f, 0.5f) (libstdc++)
Mt19937Uniform == <<
    <<0,-25,14415524>>, <<0,-25,13091420>>, <<1,-26,12322828>>, <<1,-25,12391407>>,
    <<1,-25,10605924>>, <<1,-25,15443109>>, <<1,-25,9913312>>, <<0,-25,10953378>>,
    <<0,-27,9089896>>, <<0,-28,8610848>>, <<0,-27,12823792>>, <<0,-25,15311222>>,
    <<0,-25,15586520>>, <<1,-28,10220328>>, <<0,-26,10279540>>, <<0,-25,14218294>>,
    <<0,-26,16703840>>, <<1,-26,8461006>>, <<0,-26,10305900>>, <<1,-25,11577173>>,
    <<0,-26,16623860>>, <<0,-25,13164870>>, <<0,-25,15478886>>, <<1,-25,15878302>>,
    <<1,-25,16495751>>, <<1,-26,13992038>>, <<1,-25,13205535>>, <<1,-27,13590344>>,
    <<1,-26,13508766>>, <<0,-25,10310898>>, <<0,-26,10496576>>, <<0,-26,8529156>>,
    <<0,-25,10395584>>, <<0,-25,13687688>>, <<0,-25,12488152>>, <<0,-28,15139040>>,
    <<0,-25,15590986>>, <<0,-25,11405798>>, <<0,-26,15011268>>, <<1,-25,15083121>>,
    <<0,-26,9561356>>, <<0,-25,10275536>>, <<0,-26,14593064>>, <<0,-25,14455776>>,
    <<1,-28,8697576>>, <<1,-26,9124820>>, <<1,-26,11704814>>, <<0,-26,12814300>>,
    <<1,-28,16201528>>, <<1,-25,12438139>>, <<0,-26,15414172>>, <<0,-25,11163104>>,
    <<0,-25,16576378>>, <<1,-26,12190074>>, <<0,-26,11869792>>, <<0,-26,15918376>>,
    <<0,-25,9758384>>, <<0,-27,12988200>>, <<1,-25,11042285>>, <<1,-26,9146478>>,
    <<1,-25,15876304>>, <<0,-25,9897570>>, <<0,-25,10078752>>, <<0,-26,13319844>>,
    <<0,-25,13546680>>, <<0,-25,10800464>>, <<1,-25,15949220>>, <<0,-25,13403852>>,
    <<1,-30,8861248>>, <<0,-25,11136692>>, <<0,-29,14095648>>, <<0,-25,13755898>>,
    <<0,-27,12934024>>, <<0,-25,15935456>>, <<1,-25,15033810>>, <<0,-26,10477008>>,
    <<0,-25,13257004>>, <<0,-25,10468632>>, <<0,-26,15318684>>, <<1,-25,13329700>>,
    <<0,-25,10682054>>, <<1,-25,8807084>>, <<0,-36,15306752>>, <<1,-27,16194012>>,
    <<0,-25,10408230>>, <<0,-26,13370504>>, <<1,-25,13557046>>, <<1,-30,16164928>>,
    <<1,-25,9430472>>, <<1,-27,11378680>>, <<1,-26,16192090>>, <<0,-26,9305436>>,
    <<1,-28,8561544>>, <<0,-25,8700328>>, <<1,-28,10905672>>, <<0,-28,15441184>>,
    <<0,-26,14059964>>, <<0,-26,12982572>>, <<1,-25,10802748>>, <<0,-25,13866676>>,
    <<0,-28,8442272>>, <<1,-25,15951347>>, <<1,-25,11148721>>, <<0,-25,11320538>>,
    <<0,-25,9019898>>, <<1,-27,15675928>>, <<0,-25,14367020>>, <<1,-26,13504248>>,
    <<0,-27,14695992>>, <<1,-25,16565921>>, <<1,-25,11737894>>, <<1,-28,16761800>>,
    <<1,-30,11138240>>, <<0,-26,15967700>>, <<1,-27,16462480>>, <<1,-27,16675152>>,
    <<0,-25,11697122>>, <<1,-31,14496640>>, <<0,-25,13794134>>, <<1,-25,16306124>>,
    <<1,-27,15589560>>, <<1,-25,8407506>>, <<1,-26,12381860>>, <<1,-26,10258580>>,
    <<0,-27,9179704>>, <<0,-25,9955152>>, <<1,-25,10475088>>, <<0,-25,14710242>>,
    <<1,-25,12554674>>, <<1,-25,13404255>>, <<0,-26,12589340>>, <<0,-26,15797604>>,
    <<0,-25,10053134>>, <<0,-25,15986576>>, <<0,-27,9869912>>, <<0,-26,13816760>>,
    <<0,-25,15878964>>, <<0,-25,15158708>>, <<0,-26,8996236>>, <<0,-25,14356180>>,
    <<0,-25,13033270>>, <<1,-27,12075444>>, <<1,-31,9846720>>, <<1,-26,10865262>>,
    <<1,-26,9957846>>, <<0,-25,9029778>>, <<0,-26,14376756>>, <<1,-26,11096570>>,
    <<0,-31,8437760>>, <<1,-25,14002712>>, <<1,-25,9206074>>, <<0,-25,13373394>>,
    <<1,-25,8557238>>, <<0,-25,9641356>>, <<0,-25,9824762>>, <<0,-26,14593864>>,
    <<1,-31,10367168>>, <<1,-28,15035016>>, <<0,-25,13928232>>, <<0,-25,8418540>>,
    <<0,-25,14944198>>, <<0,-26,10596376>>, <<0,-28,8920704>>, <<1,-26,9348446>>,
    <<1,-26,16609940>>, <<1,-27,16331212>>, <<0,-26,14821800>>, <<0,-26,10041628>>,
    <<1,-26,8896034>>, <<1,-25,14910354>>, <<1,-33,11609856>>, <<1,-25,14151270>>,
    <<1,-25,9174619>>, <<1,-25,13693463>>, <<1,-26,9827044>>, <<0,-25,10237626>>,
    <<0,-26,10123492>>, <<1,-25,14585861>>, <<1,-26,12553860>>, <<1,-25,9250307>>,
    <<0,-25,9017266>>, <<1,-25,11672486>>, <<0,-25,9456884>>, <<0,-26,12119248>>,
    <<0,-25,11824900>>, <<1,-25,12550738>>, <<0,-25,15096332>>, <<1,-26,16283422>>,
    <<1,-25,13176057>>, <<1,-28,16651688>>, <<0,-25,13781656>>, <<1,-25,13097382>>,
    <<1,-26,11002152>>, <<1,-26,12444262>>, <<0,-25,10951510>>, <<1,-26,10017214>>,
    <<0,-25,13358040>>, <<0,-25,8762500>>, <<1,-25,15343928>>, <<1,-25,13460321>>,
    <<1,-25,10207426>>, <<0,-25,14477406>>, <<1,-26,13790782>>, <<1,-26,11671636>>,
    <<0,-26,8522816>>, <<1,-27,9846796>>, <<1,-25,13884048>>, <<1,-26,15389340>>,
    <<1,-25,11980777>>, <<0,-25,9667360>>, <<0,-29,8496800>>, <<1,-28,12529504>>,
    <<0,-26,12706480>>, <<1,-25,13984286>>, <<0,-25,11966376>>, <<1,-25,14415764>>,
    <<0,-26,9889276>>, <<1,-26,11425334>>, <<0,-27,10954672>>, <<1,-25,10331238>>,
    <<0,-26,14167752>>, <<0,-25,11336878>>, <<1,-26,16615024>>, <<1,-25,14707399>>,
    <<0,-25,13427130>>, <<0,-28,14558528>>, <<1,-28,15490416>>, <<0,-27,9477272>>,
    <<1,-25,16088651>>, <<1,-28,10170944>>, <<0,-25,15423664>>, <<0,-25,15060196>>,
    <<0,-26,10215676>>, <<1,-26,10417046>>, <<0,-30,14180096>>, <<0,-25,12899970>>,
    <<0,-26,12237728>>, <<1,-27,9255636>>, <<1,-30,11230912>>, <<0,-25,16591990>>,
    <<0,-25,14310636>>, <<0,-25,10083222>>, <<0,-29,8525376>>, <<0,-25,14818774>>,
    <<1,-25,14355932>>, <<1,-27,16175972>>, <<0,-27,9060808>>, <<1,-27,12693668>>,
    <<0,-27,15467680>>, <<1,-26,14301734>>, <<0,-25,14815836>>, <<1,-28,13278408>>,
    <<1,-27,11359740>>, <<0,-25,8895652>>, <<1,-26,15808166>>, <<0,-27,10723880>>,
    <<1,-25,13509244>>, <<1,-27,16358040>>, <<1,-30,15199648>>, <<0,-27,16427352>>,
    <<1,-28,9485744>>, <<0,-26,16050608>>, <<1,-25,15778659>>, <<0,-25,13870828>>,
    <<0,-26,13037740>>, <<0,-28,8617744>>, <<0,-26,14559076>>, <<0,-29,9567776>>,
    <<0,-26,15422384>>, <<1,-25,13334966>>, <<1,-27,11495612>>, <<1,-25,12694656>>,
    <<1,-25,16270583>>, <<0,-26,9643320>>, <<0,-25,13722930>>, <<1,-28,14505056>>,
    <<0,-25,9709938>>, <<1,-25,14216175>>, <<1,-25,11234052>>, <<1,-25,11657842>>,
    <<1,-26,12563722>>, <<1,-25,14109371>>, <<0,-27,14890824>>, <<0,-25,12729590>>,
    <<1,-26,9093902>>, <<1,-25,11359053>>, <<1,-25,11541430>>, <<0,-25,14191868>>,
    <<1,-25,10827887>>, <<1,-25,16657116>>, <<0,-25,12344328>>, <<0,-25,10153636>>,
    <<1,-26,14086508>>, <<1,-26,13184662>>, <<0,-27,11432616>>, <<1,-25,8564626>>,
    <<1,-28,12349408>>, <<0,-25,8999664>>, <<1,-27,11921468>>, <<0,-26,13655436>>,
    <<0,-25,12839082>>, <<0,-25,12957926>>, <<0,-26,12932416>>, <<0,-25,13862732>>,
    <<1,-26,14812714>>, <<1,-25,9217046>>, <<1,-25,14614960>>, <<1,-27,10538304>>,
    <<1,-25,10112514>>, <<1,-25,11211802>>, <<0,-25,14484870>>, <<1,-25,9702775>>,
    <<0,-25,11892146>>, <<0,-25,11405094>>, <<0,-25,15258366>>, <<0,-25,13940204>>,
    <<1,-25,15023885>>, <<0,-26,12186396>>, <<0,-27,10666512>>, <<1,-27,12179336>>,
    <<1,-29,10470992>>, <<1,-25,9323826>>, <<1,-25,16048784>>, <<0,-25,11250802>>,
    <<1,-26,8481188>>, <<0,-25,9285750>>, <<1,-27,11530404>>, <<0,-26,15927988>>,
    <<0,-27,13946192>>, <<0,-25,12036050>>, <<0,-26,11525860>>, <<0,-25,15854852>>,
    <<0,-25,11370446>>, <<1,-27,12085040>>, <<0,-25,9379344>>, <<0,-27,13020992>>,
    <<1,-27,13327680>>, <<0,-26,16001572>>, <<0,-25,9882762>>, <<1,-26,15655858>>,
    <<0,-25,13191062>>, <<0,-25,8829280>>, <<1,-26,15939048>>, <<0,-25,14445276>>,
    <<0,-25,16414728>>, <<0,-25,12572464>>, <<0,-25,11855020>>, <<1,-25,12879420>>,
    <<0,-26,15534168>>, <<0,-25,15679624>>, <<1,-26,9692826>>, <<1,-26,13221288>>,
    <<0,-25,12861062>>, <<0,-27,14631856>>, <<0,-25,12346658>>, <<1,-25,11148224>>,
    <<0,-25,15292984>>, <<0,-25,12026780>>, <<1,-25,16773617>>, <<0,-26,15192928>>,
    <<1,-25,16222190>>, <<1,-25,14592234>>, <<1,-26,12477548>>, <<0,-29,9716576>>,
    <<0,-25,16620052>>, <<0,-27,12815864>>, <<1,-25,11782832>>, <<1,-28,11295216>>,
    <<1,-25,11160972>>, <<0,-27,12380480>>, <<0,-25,8676238>>, <<1,-26,12116152>>,
    <<1,-25,14444188>>, <<0,-25,10731772>>, <<0,-26,13789088>>, <<1,-25,13665413>>,
    <<1,-29,16554256>>, <<1,-25,10842443>>, <<1,-25,16435356>>, <<1,-25,9371335>>,
    <<0,-25,9221558>>, <<1,-29,13908576>>, <<0,-25,9871748>>, <<0,-25,14007360>>,
    <<1,-25,11758498>>, <<0,-25,16493202>>, <<1,-25,15981854>>, <<0,-27,13987408>>,
    <<0,-25,8793400>>, <<0,-25,14111570>>, <<1,-25,9272090>>, <<1,-26,8949908>>,
    <<1,-26,15960206>>, <<1,-25,16515427>>, <<1,-28,11577752>>, <<0,-26,10402988>>,
    <<1,-25,8391060>>, <<1,-25,11138288>>, <<0,-27,9164864>>, <<1,-32,15212288>>,
    <<0,-25,11641476>>, <<0,-25,9757762>>, <<1,-27,16361204>>, <<0,-25,10668996>>,
    <<1,-27,9064380>>, <<1,-26,8941354>>, <<0,-25,11160848>>, <<1,-25,12457326>>,
    <<1,-26,8648190>>, <<1,-25,10163073>>, <<1,-25,15416474>>, <<1,-25,16076073>>,
    <<0,-28,14675760>>, <<0,-26,8961984>>, <<1,-28,13087240>>, <<1,-29,11479344>>,
    <<0,-26,15119692>>, <<1,-25,9648821>>, <<1,-27,16314096>>, <<1,-26,15738482>>,
    <<0,-25,11430736>>, <<1,-25,10440154>>, <<1,-29,16474048>>, <<0,-25,13079862>>,
    <<0,-27,8407856>>, <<0,-26,14505128>>, <<0,-26,10817904>>, <<1,-25,14476286>>,
    <<1,-28,10135624>>, <<1,-25,8534960>>, <<0,-27,16594272>>, <<0,-25,14104786>>,
    <<1,-25,9332138>>, <<1,-25,9901746>>, <<0,-26,15627180>>, <<1,-28,9158600>>,
    <<1,-27,15880360>>, <<0,-25,8827200>>, <<1,-25,10239654>>, <<0,-28,8688256>>,
    <<1,-26,15357006>>, <<0,-28,13696144>>, <<1,-25,8414611>>, <<1,-25,8887541>>,
    <<1,-25,11672276>>, <<1,-26,15033776>>, <<0,-25,9105790>>, <<1,-25,16211956>>,
    <<1,-26,16414040>>, <<1,-27,10410324>>, <<1,-25,12497570>>, <<1,-25,15200224>>,
    <<0,-26,11084180>>, <<1,-25,14790806>>, <<1,-27,11703120>>, <<1,-26,12147786>>,
    <<0,-26,11258704>>, <<1,-28,15284272>>, <<0,-26,10724904>>, <<1,-25,11120550>>,
    <<1,-26,13060884>>, <<1,-26,13332684>>, <<1,-25,10025251>>, <<1,-28,13581960>>,
    <<1,-25,9327222>>, <<1,-29,14451872>>, <<1,-25,12751662>>, <<0,-26,13705032>>,
    <<1,-25,15530822>>, <<0,-26,13464724>>, <<1,-25,15631950>>, <<0,-27,12569424>>,
    <<1,-25,9043036>>, <<0,-25,15869060>>, <<1,-25,9114937>>, <<0,-26,10883580>>,
    <<0,-27,16765216>>, <<0,-25,12677364>>, <<0,-25,13172168>>, <<1,-27,11497720>>,
    <<0,-25,9386114>>, <<0,-25,10001732>>, <<0,-26,14861344>>, <<1,-25,12147448>>,
    <<1,-26,12721012>>, <<1,-26,16030544>>, <<1,-26,9188316>>, <<1,-25,9167169>>,
    <<1,-25,10197803>>, <<0,-28,8711264>>, <<0,-25,14612680>>, <<0,-26,13067140>>,
    <<0,-28,16571600>>, <<1,-25,8590704>>, <<0,-25,10646538>>, <<1,-25,10230766>>,
    <<1,-26,10139212>>, <<0,-25,9735564>>, <<0,-25,10056742>>, <<1,-27,12699656>>,
    <<1,-25,13284050>>, <<1,-27,8713288>>, <<0,-26,14235144>>, <<0,-26,8481472>>,
    <<0,-25,14007248>>, <<0,-26,12000216>>, <<0,-25,10186634>>, <<1,-27,9200152>>,
    <<1,-26,11602240>>, <<1,-26,13745390>>, <<1,-26,16434480>>, <<0,-25,16686108>>,
    <<1,-31,10732736>>, <<1,-25,10157769>>, <<1,-27,11594940>>, <<0,-28,15558448>>,
    <<1,-27,10074772>>, <<1,-29,14435008>>, <<1,-25,14281494>>, <<1,-25,13799049>>
    >>

\* the first values dist(rng) returns when line 37 constructs the generator
\* from another seed, std::mt19937 rng(54321) (libstdc++)
Mt19937UniformOther == <<
    <<0,-25,13812372>>, <<0,-30,10437824>>, <<0,-27,16619488>>, <<1,-25,10624863>>,
    <<0,-25,9791312>>, <<0,-25,10360586>>, <<1,-27,9424124>>, <<0,-25,14689634>>,
    <<0,-28,11546208>>, <<1,-25,15783790>>, <<1,-27,11615432>>, <<0,-25,9562468>>,
    <<1,-25,13903590>>, <<1,-25,11278400>>, <<0,-25,9315148>>, <<1,-27,8878380>>,
    <<1,-30,11865184>>, <<0,-27,9968008>>, <<1,-25,15081688>>, <<1,-25,9495142>>,
    <<0,-28,10315120>>, <<0,-25,11095740>>, <<1,-25,15385732>>, <<1,-26,13452630>>
    >>

\* the seeds a generator is constructed from: that of line 37, and another
\* one to compare its meshes with
Seeds == {Seed, 54321}

\* A generator is modelled by its seed and the number of values drawn from
\* it, which determine its state.
mt19937(seed) == [seed |-> seed, drawn |-> 0]

\* the values a generator constructed from seed returns
ValuesOf(seed) == IF seed = Seed THEN Mt19937Uniform ELSE Mt19937UniformOther

\* dist(rng): the value returned and the generator after the draw
dist(g) == [value |-> ValuesOf(g.seed)[g.drawn + 1],
            rng   |-> [g EXCEPT !.drawn = g.drawn + 1]]

\* ------------------------------------------------------------------------
\* bounds and inputs

\* greatest widthSegments and heightSegments of the calls that are run to
\* completion
MaxWidthSegments == 4
MaxHeightSegments == 3
\* frames rendered by the sample
MaxFrames == 100
\* renderable elements a MaterialX document holds at most
MaxElements == 2
\* compilation messages the callback is given at most
MaxMessages == 2

\* INT_MAX of the 32-bit int parameters
IntMax == 2147483647
IntMin == -IntMax - 1

\* invocations of Sphere::create that may be in progress at once
Threads == {1, 2}

WidthInputs == {-1, 2} \cup (3..MaxWidthSegments)
HeightInputs == {-1, 1} \cup (2..MaxHeightSegments)

\* radii: zero, positive, negative, not a number
Radii == {FZero, FOne, FNeg(FTwo), NaN}

\* <<radius, widthSegments, heightSegments, randomness>> of the calls that
\* are run to completion
Inputs == Radii \X WidthInputs \X HeightInputs \X {FZero, FHalf}

\* calls with segment counts at the ends of the int range
ExtremeInputs == { <<FOne, IntMin, IntMin, FZero>>,
                   <<FOne, IntMax, 2, FZero>>,
                   <<FOne, 3, IntMax, FHalf>>,
                   <<FOne, 16383, 16383, FZero>> }

\* FLT_MAX, the greatest finite float
FMax == <<0, EMax, 16777215>>

\* 2^-30, a positive radius below the 1e-8 of vec3_normalize
FTiny == <<0, -53, 8388608>>

\* calls with radius zero and the randomness of greatest magnitude, and an
\* unperturbed call with a tiny positive radius
DegenerateInputs ==
    ({FZero} \X {3} \X {2} \X {FMax, FNeg(FMax)}) \cup {<<FTiny, 3, 2, FZero>>}

\* columns looked at from either end of a quad row of a call with many
\* vertices
MaxQuadColumns == 12

\* <<widthSegments, heightSegments>> of calls whose index loop is looked at
\* one quad at a time: a small mesh, and two with more than 65536 vertices
WideCounts == {<<4, 3>>, <<255, 256>>, <<3, 16384>>}

\* calls whose meshes are compared between seeds: the radii of Inputs, the
\* negative zero and a tiny radius; no randomness, written 0.0f or -0.0f,
\* and some
SeededInputs ==
    (Radii \cup {FNeg(FZero), FTiny}) \X WidthInputs \X HeightInputs
        \X {FZero, FNeg(FZero), FHalf}

\* the sequential caller's calls
SeqInputs == {FOne} \X WidthInputs \X (HeightInputs \ {-1}) \X {FZero, FHalf}

\* the calls of the concurrent callers
ConcInputs == {FOne} \X {3} \X {2} \X {FZero, FHalf}

\* ------------------------------------------------------------------------
\* state

VARIABLES
    pc,             \* where each invocation stands
    args,           \* the arguments each invocation was called with
    radius, widthSegments, heightSegments, randomness,   \* parameters
    vertices, indices,                  \* the output vectors being built
    firstVertex, vertex, normal,        \* float[3] working values
    index,                              \* running vertex counter
    grid, verticesRow,                  \* vertex numbers by ring and column
    rng,                                \* the generators, by instance
    iy, ix,                             \* loop counters
    v, uOffset,                         \* of the ring being generated
    mesh,                               \* the returned SphereMesh
    thrown,                             \* the exception that ended a call
    solo,           \* whether no other invocation ran during this one
    ref,            \* an earlier call's arguments and mesh, kept by the caller
    hello,          \* where HelloMeshSample stands
    vertexBuffer, indexBuffer,          \* the buffers, with the sizes passed
                                        \* to CreateBufferFromData
    primitveCount,                      \* the global of HelloMesh.cpp
    descriptor,                         \* the vertex layout of the pipeline
    frames, drawIndexed,                \* frames rendered; the index counts of
                                        \* the DrawIndexed calls issued
    quad,           \* one quad of the index loop of a call with many
                    \* vertices, and the indices appended for it
    seeded,         \* a call's arguments and the mesh it returns for each
                    \* seed of the generator
    \* the MaterialXShaderGen program
    mpc,                        \* where the program stands
    materialXFile, outputFolder,    \* parameters of Run
    device_,                    \* MaterialXShaderGenSample::device_ is set
    tintCalls,                  \* the calls of tint::Initialize and
                                \* tint::Shutdown made so far
    success,                    \* the local of Run
    renderableElements,         \* how many elements Run found
    elem, stage,                \* loop positions: element, stage (from 1)
    steps,                      \* the pipeline steps run for this stage
                                \* and whether each succeeded
    files,                      \* the files saved for this stage
    stepFailed,                 \* a generation, compile, convert or
                                \* validation step has reported failure
    saveFailed,                 \* creating the directory or saving a file
                                \* has failed
    caught,                     \* an exception reached the handler of
                                \* line 786
    module, done, validateSuccess,  \* locals of ValidateWgslWithDawn
    callback,                   \* the compilation-info callback
    info,                       \* status and message types it was given
    runResult,                  \* what Run returned
    pipelineSuccess_,           \* ShaderValidationApp::pipelineSuccess_
    exitCode                    \* what main returned

frameVars == <<radius, widthSegments, heightSegments, randomness, vertices,
               indices, firstVertex, vertex, normal, index, grid,
               verticesRow, iy, ix, v, uOffset>>
callVars == <<pc, args, frameVars, rng, mesh, thrown, solo>>
helloVars == <<hello, vertexBuffer, indexBuffer, primitveCount, descriptor,
               frames, drawIndexed>>
\* the variables of ValidateWgslWithDawn
validateVars == <<module, done, validateSuccess, callback, info>>
\* the variables of MaterialXShaderGenSample::Run
runVars == <<materialXFile, outputFolder, device_, success,
             renderableElements, elem, stage, steps, files, stepFailed,
             saveFailed, caught, runResult>>
mtlxVars == <<mpc, tintCalls, runVars, validateVars, pipelineSuccess_,
              exitCode>>
\* the variables of the specifications other than those of the sphere and
\* of HelloMesh
otherVars == <<quad, seeded, mtlxVars>>
vars == <<callVars, ref, helloVars, otherVars>>

Vec3Zero == <<FZero, FZero, FZero>>
EmptyMesh == [vertices |-> <<>>, indices |-> <<>>]
NoRef == [args |-> <<>>, mesh |-> EmptyMesh]
NoQuad == [W |-> 0, H |-> 0, row |-> 0, column |-> 0, indices |-> <<>>]
NoSeeded == [args |-> <<>>, mesh |-> [s \in Seeds |-> EmptyMesh]]
NoInfo == [status |-> "none", messages |-> <<>>]

\* no call of Sphere::create in progress, the sample not started
InitSamples ==
    /\ pc = [t \in Threads |-> "idle"]
    /\ args = [t \in Threads |-> <<>>]
    /\ radius = [t \in Threads |-> FZero]
    /\ widthSegments = [t \in Threads |-> 0]
    /\ heightSegments = [t \in Threads |-> 0]
    /\ randomness = [t \in Threads |-> FZero]
    /\ vertices = [t \in Threads |-> <<>>]
    /\ indices = [t \in Threads |-> <<>>]
    /\ firstVertex = [t \in Threads |-> Vec3Zero]
    /\ vertex = [t \in Threads |-> Vec3Zero]
    /\ normal = [t \in Threads |-> Vec3Zero]
    /\ index = [t \in Threads |-> 0]
    /\ grid = [t \in Threads |-> <<>>]
    /\ verticesRow = [t \in Threads |-> <<>>]
    /\ rng = [t \in Threads |-> mt19937(Seed)]
    /\ iy = [t \in Threads |-> 0]
    /\ ix = [t \in Threads |-> 0]
    /\ v = [t \in Threads |-> FZero]
    /\ uOffset = [t \in Threads |-> FZero]
    /\ mesh = [t \in Threads |-> EmptyMesh]
    /\ thrown = [t \in Threads |-> "none"]
    /\ solo = [t \in Threads |-> TRUE]
    /\ ref = NoRef
    /\ hello = "off"
    /\ vertexBuffer = 0
    /\ indexBuffer = 0
    /\ primitveCount = 0
    /\ descriptor = [arrayStride |-> 0, offsets |-> <<>>, formats |-> <<>>]
    /\ frames = 0
    /\ drawIndexed = <<>>

\* the MaterialXShaderGen program before main, lines 852 and 805
InitMtlx ==
    /\ mpc = "main"
    /\ materialXFile = ""
    /\ outputFolder = ""
    /\ device_ = FALSE
    /\ tintCalls = <<>>
    /\ success = TRUE
    /\ renderableElements = 0
    /\ elem = 0
    /\ stage = 0
    /\ steps = <<>>
    /\ files = {}
    /\ stepFailed = FALSE
    /\ saveFailed = FALSE
    /\ caught = FALSE
    /\ module = "none"
    /\ done = FALSE
    /\ validateSuccess = TRUE
    /\ callback = "none"
    /\ info = NoInfo
    /\ runResult = FALSE
    /\ pipelineSuccess_ = FALSE
    /\ exitCode = 0

Init ==
    /\ InitSamples
    /\ InitMtlx
    /\ quad = NoQuad
    /\ seeded = NoSeeded

\* the arguments of the call whose meshes are compared between seeds are
\* given, the call is still to be made
SeededInit ==
    /\ InitSamples
    /\ InitMtlx
    /\ quad = NoQuad
    /\ seeded \in {[args |-> a, mesh |-> NoSeeded.mesh] : a \in SeededInputs}

\* ------------------------------------------------------------------------
\* Sphere.cpp

\* vec3_copy: the value written to dst
vec3_copy(src) == <<src[1], src[2], src[3]>>

\* the division done whatever the length
vec3_normalize_unguarded(vec) ==
    LET Divided(len) ==
            <<FDiv(vec[1], len), FDiv(vec[2], len), FDiv(vec[3], len)>>
    IN  Divided(FSqrt(FAdd(FAdd(FMul(vec[1], vec[1]), FMul(vec[2], vec[2])),
                           FMul(vec[3], vec[3]))))

\* vec3_normalize: the value left in v
vec3_normalize(vec) ==
    LET Scaled(len) ==
            IF FGt(len, FEpsilon)
            THEN <<FDiv(vec[1], len), FDiv(vec[2], len), FDiv(vec[3], len)>>
            ELSE vec
    IN  Scaled(FSqrt(FAdd(FAdd(FMul(vec[1], vec[1]), FMul(vec[2], vec[2])),
                          FMul(vec[3], vec[3]))))

\* widthSegments passed on unclamped
ClampWidthMissing(w) == w

\* lines 21 and 22
ClampWidth(w) == IF 3 >= w THEN 3 ELSE w
ClampHeight(h) == IF 2 >= h THEN 2 ELSE h

\* whether a * b exceeds INT_MAX, for a, b > 0
MulOverflows(a, b) == a > IntMax \div b

\* whether the int arithmetic of lines 26, 34 and 43 overflows:
\* (widthSegments + 1) * (heightSegments + 1) * 8, heightSegments + 1 and
\* widthSegments + 1, for the clamped W and H
SizeOverflows(W, H) ==
    \/ W = IntMax
    \/ H = IntMax
    \/ MulOverflows(W + 1, H + 1)
    \/ MulOverflows((W + 1) * (H + 1), 8)

\* Signed overflow is undefined.  Builds either wrap (a negative int reaches
\* reserve, which throws std::length_error) or widen to 64 bits (reserve
\* asks for more memory than there is and throws std::bad_alloc).
OverflowOutcomes == {"length_error", "bad_alloc"}

\* one generator shared by all invocations (a static or global generator)
RngInstanceShared(t) == 1

\* the generator instance invocation t draws from: its own local (line 37)
RngInstance(t) == t

\* the generator carried over from the previous call, not seeded again
SeedRngOnce(g) == g

\* the generator at the start of a call, given the instance's earlier state:
\* constructed anew from the fixed seed (line 37)
SeedRng(g) == mt19937(Seed)

\* no column treated as the seam: its position is computed like any other
IsSeamColumnNever(column, W) == FALSE

\* line 56: the seam column takes the ring's first position
IsSeamColumn(column, W) == column = W

\* the south pole ring forgotten: every column of it is computed
ComputesPositionSouth(column, ring, H) == column = 0 \/ ring # 0

\* column 0 of a pole ring not computed: the working vertex is reused
ComputesPositionInterior(column, ring, H) == ring # 0 /\ ring # H

\* line 58: the columns whose position is computed
ComputesPosition(column, ring, H) == column = 0 \/ (ring # 0 /\ ring # H)

\* w pushed as 0
PositionWZero == FZero

\* line 74: the fourth float of a position
PositionW == FOne

\* the counter advanced twice per vertex
NextIndexTwice(i) == i + 2

\* line 86: index++
NextIndex(i) == i + 1

\* the upper triangle emitted on the north pole row too
EmitsUpperAlways(row) == TRUE

\* the lower triangle emitted on the south pole row too
EmitsLowerAlways(row, H) == TRUE

\* lines 101 and 106: which triangles of a quad of ring row are emitted
EmitsUpper(row) == row # 0
EmitsLower(row, H) == row # H - 1

\* static_cast<uint16_t>(n), n >= 0
ToUint16(n) == n % 65536

\* ------------------------------------------------------------------------
\* An invocation's frame: its parameters and locals, where it stands (pc),
\* and the generator it draws from.  Each step of Sphere::create is a
\* function from the frame before the step to the frame after it.

\* lines 18 to 38, for the arguments a: the frame before the first loop, or
\* the failed call with exception e when a size overflows; g is the state
\* the invocation's generator instance was in before
Enter(a, g, e) ==
    LET W == ClampWidth(a[2])
        H == ClampHeight(a[3])
        failed == SizeOverflows(W, H)
    IN  [ pc             |-> IF failed THEN "failed" ELSE "ring",
          thrown         |-> IF failed THEN e ELSE "none",
          args           |-> a,
          radius         |-> a[1],
          widthSegments  |-> W,
          heightSegments |-> H,
          randomness     |-> a[4],
          vertices       |-> <<>>,
          indices        |-> <<>>,
          firstVertex    |-> Vec3Zero,
          vertex         |-> Vec3Zero,
          normal         |-> Vec3Zero,
          index          |-> 0,
          grid           |-> <<>>,
          verticesRow    |-> <<>>,
          rng            |-> IF failed THEN g ELSE SeedRng(g),
          iy             |-> 0,
          ix             |-> 0,
          v              |-> FZero,
          uOffset        |-> FZero,
          mesh           |-> EmptyMesh ]

\* no offset on the pole rings
UOffsetNone(ring, W, H) == FZero

\* lines 46 to 51: uOffset of a ring
UOffset(ring, W, H) ==
    IF ring = 0 THEN FDiv(FHalf, IntToFloat(W))
    ELSE IF ring = H THEN FDiv(FNeg(FHalf), IntToFloat(W))
    ELSE FZero

\* lines 41 to 51: a ring begins
RingBeginF(f) ==
    [f EXCEPT
        !.verticesRow = <<>>,
        !.v = FDiv(IntToFloat(f.iy), IntToFloat(f.heightSegments)),
        !.uOffset = UOffset(f.iy, f.widthSegments, f.heightSegments),
        !.ix = 0,
        !.pc = "vertex"]

\* the radius displaced by the whole jitter, randomness left out
DisplacedUnscaled(R, jitter, rnd) ==
    FAdd(R, FMul(FMul(jitter, FTwo), R))

\* line 59: rr, the radius displaced by the jitter drawn
Displaced(R, jitter, rnd) ==
    FAdd(R, FMul(FMul(FMul(jitter, FTwo), rnd), R))

\* lines 53 to 88: one vertex
EmitVertexF(f) ==
    LET \* lines 70 to 86: the vertex is appended; first is firstVertex and
        \* g the generator after lines 56 to 68
        Pushed(u, pos, nrm, first, g) ==
            [f EXCEPT
                !.vertex = pos,
                !.rng = g,
                !.firstVertex = first,
                !.normal = nrm,
                !.vertices = f.vertices
                               \o <<pos[1], pos[2], pos[3], PositionW>>
                               \o nrm
                               \o <<FAdd(u, f.uOffset), FSub(FOne, f.v)>>,
                !.verticesRow = Append(f.verticesRow, f.index),
                !.index = NextIndex(f.index),
                !.ix = f.ix + 1]
        Placed(u, pos, first, g) ==
            Pushed(u, pos, vec3_normalize(pos), first, g)
        \* lines 65 to 67
        Remembered(u, pos, g) ==
            Placed(u, pos,
                   IF f.ix = 0 THEN vec3_copy(pos) ELSE f.firstVertex, g)
        \* lines 61 to 63
        Computed(u, rr, au, av, g) ==
            Remembered(u, << FMul(FMul(FNeg(rr), Cosf(au)), Sinf(av)),
                             FMul(rr, Cosf(av)),
                             FMul(FMul(rr, Sinf(au)), Sinf(av)) >>, g)
        \* line 59
        Drawn(u, draw) ==
            Computed(u,
                     Displaced(f.radius, draw.value, f.randomness),
                     FMul(FMul(u, FPi), FTwo),
                     FMul(f.v, FPi),
                     draw.rng)
        \* lines 56 to 68
        Column(u) ==
            IF IsSeamColumn(f.ix, f.widthSegments)
            THEN Placed(u, vec3_copy(f.firstVertex), f.firstVertex, f.rng)
            ELSE IF ComputesPosition(f.ix, f.iy, f.heightSegments)
            THEN Drawn(u, dist(f.rng))
            ELSE Placed(u, f.vertex, f.firstVertex, f.rng)
    IN  Column(FDiv(IntToFloat(f.ix), IntToFloat(f.widthSegments)))

\* lines 53 and 90: the ring is complete
RingEndF(f) ==
    [f EXCEPT !.grid = Append(f.grid, f.verticesRow),
              !.iy = f.iy + 1,
              !.pc = "ring"]

\* lines 41 and 94: the last ring is complete, the index loop begins
RingsDoneF(f) == [f EXCEPT !.iy = 0, !.ix = 0, !.pc = "quad"]

\* the four corners of the quad appended, not its triangles
QuadCorners(g, row, column, H) ==
    <<ToUint16(g[row + 1][column + 2]), ToUint16(g[row + 1][column + 1]),
      ToUint16(g[row + 2][column + 1]), ToUint16(g[row + 2][column + 2])>>

\* lines 96 to 110: the indices one quad appends
QuadIndices(g, row, column, H) ==
    LET a == g[row + 1][column + 2]
        b == g[row + 1][column + 1]
        c == g[row + 2][column + 1]
        d == g[row + 2][column + 2]
    IN  (IF EmitsUpper(row)
         THEN <<ToUint16(a), ToUint16(b), ToUint16(d)>> ELSE <<>>)
        \o (IF EmitsLower(row, H)
            THEN <<ToUint16(b), ToUint16(c), ToUint16(d)>> ELSE <<>>)

\* lines 95 to 111: one quad
EmitQuadF(f) ==
    [f EXCEPT !.indices = f.indices
                  \o QuadIndices(f.grid, f.iy, f.ix, f.heightSegments),
              !.ix = f.ix + 1]

\* lines 94 and 95: a row of quads is complete
QuadRowEndF(f) == [f EXCEPT !.iy = f.iy + 1, !.ix = 0]

\* lines 94 and 114 to 117: the mesh is returned
ReturnF(f) ==
    [f EXCEPT !.mesh = [vertices |-> f.vertices, indices |-> f.indices],
              !.pc = "done"]

\* A call run from its first loop to its return, for a caller that waits
\* for it: the loops of lines 41, 53, 94 and 95.
RECURSIVE RunVertices(_)
RunVertices(f) ==
    IF f.ix <= f.widthSegments THEN RunVertices(EmitVertexF(f))
    ELSE RingEndF(f)

RECURSIVE RunRings(_)
RunRings(f) ==
    IF f.iy <= f.heightSegments THEN RunRings(RunVertices(RingBeginF(f)))
    ELSE RingsDoneF(f)

RECURSIVE RunQuads(_)
RunQuads(f) ==
    IF f.ix < f.widthSegments THEN RunQuads(EmitQuadF(f))
    ELSE QuadRowEndF(f)

RECURSIVE RunQuadRows(_)
RunQuadRows(f) ==
    IF f.iy < f.heightSegments THEN RunQuadRows(RunQuads(f))
    ELSE ReturnF(f)

RunToReturn(f) == IF f.pc = "failed" THEN f ELSE RunQuadRows(RunRings(f))

\* ------------------------------------------------------------------------
\* The invocations in progress, one step at a time.

\* the frame of invocation t
Frame(t) ==
    [ pc             |-> pc[t],
      thrown         |-> thrown[t],
      args           |-> args[t],
      radius         |-> radius[t],
      widthSegments  |-> widthSegments[t],
      heightSegments |-> heightSegments[t],
      randomness     |-> randomness[t],
      vertices       |-> vertices[t],
      indices        |-> indices[t],
      firstVertex    |-> firstVertex[t],
      vertex         |-> vertex[t],
      normal         |-> normal[t],
      index          |-> index[t],
      grid           |-> grid[t],
      verticesRow    |-> verticesRow[t],
      rng            |-> rng[RngInstance(t)],
      iy             |-> iy[t],
      ix             |-> ix[t],
      v              |-> v[t],
      uOffset        |-> uOffset[t],
      mesh           |-> mesh[t] ]

\* invocation t goes on with frame f
Becomes(t, f) ==
    /\ pc' = [pc EXCEPT ![t] = f.pc]
    /\ thrown' = [thrown EXCEPT ![t] = f.thrown]
    /\ args' = [args EXCEPT ![t] = f.args]
    /\ radius' = [radius EXCEPT ![t] = f.radius]
    /\ widthSegments' = [widthSegments EXCEPT ![t] = f.widthSegments]
    /\ heightSegments' = [heightSegments EXCEPT ![t] = f.heightSegments]
    /\ randomness' = [randomness EXCEPT ![t] = f.randomness]
    /\ vertices' = [vertices EXCEPT ![t] = f.vertices]
    /\ indices' = [indices EXCEPT ![t] = f.indices]
    /\ firstVertex' = [firstVertex EXCEPT ![t] = f.firstVertex]
    /\ vertex' = [vertex EXCEPT ![t] = f.vertex]
    /\ normal' = [normal EXCEPT ![t] = f.normal]
    /\ index' = [index EXCEPT ![t] = f.index]
    /\ grid' = [grid EXCEPT ![t] = f.grid]
    /\ verticesRow' = [verticesRow EXCEPT ![t] = f.verticesRow]
    /\ rng' = [rng EXCEPT ![RngInstance(t)] = f.rng]
    /\ iy' = [iy EXCEPT ![t] = f.iy]
    /\ ix' = [ix EXCEPT ![t] = f.ix]
    /\ v' = [v EXCEPT ![t] = f.v]
    /\ uOffset' = [uOffset EXCEPT ![t] = f.uOffset]
    /\ mesh' = [mesh EXCEPT ![t] = f.mesh]

\* the frame of an invocation that is not in progress
IdleFrame(g) ==
    [Enter(<<FZero, 0, 0, FZero>>, g, "none") EXCEPT
        !.pc = "idle", !.args = <<>>, !.widthSegments = 0,
        !.heightSegments = 0, !.rng = g]

\* Sphere::create is called on thread t with arguments a
create(t, a) ==
    /\ pc[t] = "idle"
    /\ \E e \in OverflowOutcomes : Becomes(t, Enter(a, rng[RngInstance(t)], e))
    /\ solo' = [u \in Threads |->
                  IF u = t THEN \A o \in Threads \ {t} : pc[o] = "idle"
                  ELSE IF pc[u] = "idle" THEN solo[u] ELSE FALSE]

RingBegin(t) ==
    /\ pc[t] = "ring"
    /\ iy[t] <= heightSegments[t]
    /\ Becomes(t, RingBeginF(Frame(t)))
    /\ UNCHANGED solo

EmitVertex(t) ==
    /\ pc[t] = "vertex"
    /\ ix[t] <= widthSegments[t]
    /\ Becomes(t, EmitVertexF(Frame(t)))
    /\ UNCHANGED solo

RingEnd(t) ==
    /\ pc[t] = "vertex"
    /\ ix[t] > widthSegments[t]
    /\ Becomes(t, RingEndF(Frame(t)))
    /\ UNCHANGED solo

RingsDone(t) ==
    /\ pc[t] = "ring"
    /\ iy[t] > heightSegments[t]
    /\ Becomes(t, RingsDoneF(Frame(t)))
    /\ UNCHANGED solo

EmitQuad(t) ==
    /\ pc[t] = "quad"
    /\ iy[t] < heightSegments[t]
    /\ ix[t] < widthSegments[t]
    /\ Becomes(t, EmitQuadF(Frame(t)))
    /\ UNCHANGED solo

QuadRowEnd(t) ==
    /\ pc[t] = "quad"
    /\ iy[t] < heightSegments[t]
    /\ ix[t] >= widthSegments[t]
    /\ Becomes(t, QuadRowEndF(Frame(t)))
    /\ UNCHANGED solo

Return(t) ==
    /\ pc[t] = "quad"
    /\ iy[t] >= heightSegments[t]
    /\ Becomes(t, ReturnF(Frame(t)))
    /\ UNCHANGED solo

\* the steps of an invocation in progress
Step(t) ==
    \/ RingBegin(t)
    \/ EmitVertex(t)
    \/ RingEnd(t)
    \/ RingsDone(t)
    \/ EmitQuad(t)
    \/ QuadRowEnd(t)
    \/ Return(t)

\* The caller is done with a returned mesh: the invocation's frame is gone.
\* With keep, and when no other invocation ran meanwhile, the caller keeps
\* the arguments and the mesh to compare later calls with.
Take(t, keep) ==
    /\ pc[t] = "done"
    /\ keep => solo[t]
    /\ ref' = IF keep THEN [args |-> args[t], mesh |-> mesh[t]] ELSE ref
    /\ Becomes(t, IdleFrame(rng[RngInstance(t)]))
    /\ solo' = [solo EXCEPT ![t] = TRUE]

\* ------------------------------------------------------------------------
\* HelloMesh.cpp

\* lines 46 to 49: the arguments of the sample's call
HelloArgs == <<FOne, 32, 16, FZero>>
\* the stride of SphereLayout (Sphere.h): 8 floats per vertex
StrideOfSphereLayout == 3 + 3 + 2

\* line 50
stride == 4 + 3 + 2
\* sizeof(float) and sizeof(u_int16_t)
SizeofFloat == 4
SizeofUint16 == 2

\* line 52: the call of Sphere::create, which SetupImpl waits for
HelloSphere == RunToReturn(Enter(HelloArgs, mt19937(Seed), "none"))

\* line 65: the size passed for the vertex data
VertexUploadSize(m) == Len(m.vertices) * stride * SizeofFloat
\* line 68: the size passed for the index data
IndexUploadSize(m) == Len(m.indices) * SizeofUint16

\* lines 42 to 147: SetupImpl.  CreateBufferFromData copies as many bytes as
\* it is told from the vector's storage; reading past its end is undefined:
\* the sample goes on with whatever was read, or is stopped by the fault
\* before the next statement.  An exception thrown by Sphere::create stops
\* it as well.
SetupImpl ==
    LET Uploads(m) ==
            \/ /\ hello' = "ready"
               /\ vertexBuffer' = VertexUploadSize(m)
               /\ indexBuffer' = IndexUploadSize(m)
               /\ primitveCount' = Len(m.indices)
               /\ descriptor' =
                    [arrayStride |-> stride * SizeofFloat,
                     offsets |-> <<0, 4 * SizeofFloat, (4 + 3) * SizeofFloat>>,
                     formats |-> <<"Float32x4", "Float32x3", "Float32x2">>]
            \/ /\ VertexUploadSize(m) > Len(m.vertices) * SizeofFloat
               /\ hello' = "crashed"
               /\ vertexBuffer' = VertexUploadSize(m)
               /\ UNCHANGED <<indexBuffer, primitveCount, descriptor>>
        Called(f) ==
            IF f.pc = "failed"
            THEN /\ hello' = "crashed"
                 /\ UNCHANGED <<vertexBuffer, indexBuffer, primitveCount,
                                descriptor>>
            ELSE Uploads(f.mesh)
    IN  /\ hello = "off"
        /\ Called(HelloSphere)
        /\ UNCHANGED <<callVars, ref, frames, drawIndexed, otherVars>>

\* lines 149 to 166: one frame
FrameImpl ==
    /\ hello = "ready"
    /\ frames < MaxFrames
    /\ frames' = frames + 1
    /\ drawIndexed' = Append(drawIndexed, primitveCount)
    /\ UNCHANGED <<callVars, ref, hello, vertexBuffer, indexBuffer,
                   primitveCount, descriptor, otherVars>>

\* ------------------------------------------------------------------------
\* specifications

\* one caller, one call after another
Next ==
    \/ \E a \in Inputs \cup ExtremeInputs \cup DegenerateInputs :
          create(1, a) /\ UNCHANGED <<ref, helloVars, otherVars>>
    \/ Step(1) /\ UNCHANGED <<ref, helloVars, otherVars>>
    \/ Take(1, FALSE) /\ UNCHANGED <<helloVars, otherVars>>

Spec == Init /\ [][Next]_vars

\* one caller that keeps a returned mesh and compares later meshes with it
SeqNext ==
    \/ \E a \in SeqInputs : create(1, a) /\ UNCHANGED <<ref, helloVars, otherVars>>
    \/ Step(1) /\ UNCHANGED <<ref, helloVars, otherVars>>
    \/ \E keep \in BOOLEAN : Take(1, keep) /\ UNCHANGED <<helloVars, otherVars>>

SeqSpec == Init /\ [][SeqNext]_vars

\* callers on several threads, their steps interleaved
ConcNext ==
    \E t \in Threads :
        \/ \E a \in ConcInputs : create(t, a) /\ UNCHANGED <<ref, helloVars, otherVars>>
        \/ Step(t) /\ UNCHANGED <<ref, helloVars, otherVars>>
        \/ Take(t, FALSE) /\ UNCHANGED <<helloVars, otherVars>>

ConcSpec == Init /\ [][ConcNext]_vars

\* The index loop of a call too large to run vertex by vertex, one quad at a
\* time.  When the vertex loop is done, the grid holds the vertex numbers
\* in emission order (line 86): grid[iy][ix] = iy * (W + 1) + ix.  GridOf
\* gives the rows of that grid that a quad reads, numbered from 1 like the
\* rows of the variable grid.
GridOf(W, rows) ==
    [r \in rows |-> [c \in 1..(W + 1) |-> (r - 1) * (W + 1) + (c - 1)]]

\* lines 95 to 111 for the quad at row, column of a call with clamped
\* counts W and H
QuadOf(W, H, row, column) ==
    /\ quad' = [W |-> W, H |-> H, row |-> row, column |-> column,
                indices |-> QuadIndices(GridOf(W, {row + 1, row + 2}),
                                        row, column, H)]
    /\ UNCHANGED <<callVars, ref, helloVars, seeded, mtlxVars>>

QuadNext ==
    \E wh \in WideCounts :
        \E row \in {0, 1, ClampHeight(wh[2]) - 2, ClampHeight(wh[2]) - 1} :
            \E column \in 0..(ClampWidth(wh[1]) - 1) :
                /\ \/ column < MaxQuadColumns
                   \/ column >= ClampWidth(wh[1]) - MaxQuadColumns
                /\ QuadOf(ClampWidth(wh[1]), ClampHeight(wh[2]), row, column)

QuadSpec == Init /\ [][QuadNext]_vars

\* lines 18 to 38 with the generator of line 37 constructed from seed s
EnterSeeded(a, s) ==
    [Enter(a, mt19937(s), "none") EXCEPT !.rng = mt19937(s)]

\* Sphere::create run to its return once for each seed that line 37 may
\* construct the generator from
SeededCreate ==
    /\ seeded.mesh = NoSeeded.mesh
    /\ seeded' = [seeded EXCEPT
                    !.mesh = [s \in Seeds |->
                                RunToReturn(EnterSeeded(seeded.args,
                                                        s)).mesh]]
    /\ UNCHANGED <<callVars, ref, helloVars, quad, mtlxVars>>

SeededNext == SeededCreate

SeededSpec == SeededInit /\ [][SeededNext]_vars

\* SphereLayout: the layout constants Sphere.h publishes, in bytes
vertexStride == 8 * SizeofFloat
positionsOffset == 0
normalOffset == 3 * SizeofFloat
uvOffset == 6 * SizeofFloat

\* the HelloMesh sample
HelloNext ==
    \/ SetupImpl
    \/ FrameImpl

HelloSpec == Init /\ [][HelloNext]_vars


\* ------------------------------------------------------------------------
\* MaterialXShaderGen.cpp: main, MaterialXShaderGenSample::Run and
\* ValidateWgslWithDawn

\* the variables of the other programs
sampleVars == <<callVars, ref, helloVars, quad, seeded>>

\* the stages of lines 661 to 664
Stages == <<"vertex", "pixel">>

\* a step that fails leaves success as it was
AfterStepKept(s, ok) == s

\* lines 700, 724 and 776 (645, 651): a step that fails clears success
AfterStep(s, ok) == IF ok THEN s ELSE FALSE

\* the compile step is followed by the rest of the stage whatever it returns
CompileNextNoContinue(ok) == "save_glsl"

\* lines 697 to 703: where the loop goes after the compile step
CompileNext(ok) == IF ok THEN "save_glsl" ELSE "stage"

\* lines 721 to 727: where the loop goes after the convert step
ConvertNext(ok) == IF ok THEN "save_wgsl" ELSE "stage"

\* lines 852 to 903: main reads its arguments; --help returns 0 at once
MainArgs(file, folder, help) ==
    /\ mpc = "main"
    /\ IF help
       THEN /\ mpc' = "exited"
            /\ exitCode' = 0
            /\ UNCHANGED <<materialXFile, outputFolder>>
       ELSE /\ mpc' = "init_sample"
            /\ materialXFile' = file
            /\ outputFolder' = folder
            /\ UNCHANGED exitCode
    /\ UNCHANGED <<sampleVars, tintCalls, device_, success,
                   renderableElements, elem, stage, steps, files,
                   stepFailed, saveFailed, caught, runResult, validateVars,
                   pipelineSuccess_>>

\* lines 906 to 919 (828 to 833): InitSample succeeds and the application
\* runs the pipeline with its device, or it fails and main initializes Tint
\* and runs the pipeline without a device
MainInitSample(ok) ==
    /\ mpc = "init_sample"
    /\ mpc' = "run"
    /\ device_' = ok
    /\ tintCalls' = IF ok THEN tintCalls ELSE Append(tintCalls, "Initialize")
    /\ UNCHANGED <<sampleVars, materialXFile, outputFolder, success,
                   renderableElements, elem, stage, steps, files,
                   stepFailed, saveFailed, caught, runResult, validateVars,
                   pipelineSuccess_, exitCode>>

\* lines 523 to 541: Run initializes Tint and creates the output directory
RunEnter(created) ==
    /\ mpc = "run"
    /\ mpc' = "load"
    /\ tintCalls' = Append(tintCalls, "Initialize")
    /\ saveFailed' = (outputFolder # "" /\ ~created)
    /\ success' = TRUE
    /\ UNCHANGED <<sampleVars, materialXFile, outputFolder, device_,
                   renderableElements, elem, stage, steps, files,
                   stepFailed, caught, runResult, validateVars,
                   pipelineSuccess_, exitCode>>

\* lines 543 to 607: the generator and the libraries are set up and the
\* document is loaded or created.  A failure to read the file returns false
\* (line 586); any other exception goes to the handler of line 786.
RunLoad(outcome) ==
    /\ mpc = "load"
    /\ outcome = "load_error" => materialXFile # ""
    /\ mpc' = CASE outcome = "loaded" -> "find"
                [] outcome = "load_error" -> "returned"
                [] outcome = "exception" -> "catch"
    /\ runResult' = FALSE
    /\ UNCHANGED <<sampleVars, tintCalls, materialXFile, outputFolder,
                   device_, success, renderableElements, elem, stage, steps,
                   files, stepFailed, saveFailed, caught, validateVars,
                   pipelineSuccess_, exitCode>>

\* lines 610 to 633: the renderable elements are looked for.  With none in
\* a file Run returns false (line 629); the sample document of lines 499 to
\* 516 falls back on the output of its node graph.
RunFind(n) ==
    /\ mpc = "find"
    /\ LET found == IF n = 0 /\ materialXFile = "" THEN 1 ELSE n
       IN  /\ renderableElements' = found
           /\ mpc' = IF found = 0 THEN "returned" ELSE "element"
    /\ elem' = 1
    /\ runResult' = FALSE
    /\ UNCHANGED <<sampleVars, tintCalls, materialXFile, outputFolder,
                   device_, success, stage, steps, files, stepFailed,
                   saveFailed, caught, validateVars, pipelineSuccess_,
                   exitCode>>

\* lines 636 to 664: the next element, if any, has its shader generated;
\* generation may throw or return null (lines 643 to 653)
RunElement(outcome) ==
    /\ mpc = "element"
    /\ IF elem > renderableElements
       THEN /\ outcome = "shader"
            /\ mpc' = "cleanup"
            /\ UNCHANGED <<success, stepFailed, elem, stage>>
       ELSE IF outcome = "shader"
       THEN /\ mpc' = "stage"
            /\ stage' = 1
            /\ UNCHANGED <<success, stepFailed, elem>>
       ELSE /\ mpc' = "element"
            /\ success' = AfterStep(success, FALSE)
            /\ stepFailed' = TRUE
            /\ elem' = elem + 1
            /\ UNCHANGED stage
    /\ UNCHANGED <<sampleVars, tintCalls, materialXFile, outputFolder,
                   device_, renderableElements, steps, files, saveFailed,
                   caught, runResult, validateVars, pipelineSuccess_,
                   exitCode>>

\* lines 666 to 690: the next stage of the element, if any; a stage without
\* code is skipped; getSourceCode may throw
RunStage(outcome) ==
    /\ mpc = "stage"
    /\ IF stage > Len(Stages)
       THEN /\ outcome = "code"
            /\ mpc' = "element"
            /\ elem' = elem + 1
            /\ UNCHANGED <<stage, steps, files>>
       ELSE /\ mpc' = CASE outcome = "code" -> "compile"
                       [] outcome = "empty" -> "stage"
                       [] outcome = "exception" -> "catch"
            /\ stage' = IF outcome = "empty" THEN stage + 1 ELSE stage
            /\ steps' = <<>>
            /\ files' = {}
            /\ UNCHANGED elem
    /\ UNCHANGED <<sampleVars, tintCalls, materialXFile, outputFolder,
                   device_, success, renderableElements, stepFailed,
                   saveFailed, caught, runResult, validateVars,
                   pipelineSuccess_, exitCode>>

\* lines 692 to 703: step 2, GLSL to SPIRV
RunCompile(ok) ==
    /\ mpc = "compile"
    /\ steps' = Append(steps, [step |-> "compile", ok |-> ok])
    /\ success' = AfterStep(success, ok)
    /\ stepFailed' = (stepFailed \/ ~ok)
    /\ mpc' = CompileNext(ok)
    /\ stage' = IF CompileNext(ok) = "stage" THEN stage + 1 ELSE stage
    /\ UNCHANGED <<sampleVars, tintCalls, materialXFile, outputFolder,
                   device_, renderableElements, elem, files, saveFailed,
                   caught, runResult, validateVars, pipelineSuccess_,
                   exitCode>>

\* lines 705 to 715: the GLSL is saved when there is an output folder
RunSaveGlsl(saved) ==
    /\ mpc = "save_glsl"
    /\ mpc' = "convert"
    /\ IF outputFolder # ""
       THEN /\ files' = IF saved THEN files \cup {"glsl"} ELSE files
            /\ saveFailed' = (saveFailed \/ ~saved)
       ELSE /\ saved
            /\ UNCHANGED <<files, saveFailed>>
    /\ UNCHANGED <<sampleVars, tintCalls, materialXFile, outputFolder,
                   device_, success, renderableElements, elem, stage, steps,
                   stepFailed, caught, runResult, validateVars,
                   pipelineSuccess_, exitCode>>

\* lines 717 to 727: step 3, SPIRV to WGSL
RunConvert(ok) ==
    /\ mpc = "convert"
    /\ steps' = Append(steps, [step |-> "convert", ok |-> ok])
    /\ success' = AfterStep(success, ok)
    /\ stepFailed' = (stepFailed \/ ~ok)
    /\ mpc' = ConvertNext(ok)
    /\ stage' = IF ConvertNext(ok) = "stage" THEN stage + 1 ELSE stage
    /\ UNCHANGED <<sampleVars, tintCalls, materialXFile, outputFolder,
                   device_, renderableElements, elem, files, saveFailed,
                   caught, runResult, validateVars, pipelineSuccess_,
                   exitCode>>

\* lines 742 to 766: the WGSL and the bindings JSON are saved when there is
\* an output folder
RunSaveWgsl(savedWgsl, savedJson) ==
    /\ mpc = "save_wgsl"
    /\ mpc' = "validate"
    /\ IF outputFolder # ""
       THEN /\ files' = files \cup (IF savedWgsl THEN {"wgsl"} ELSE {})
                               \cup (IF savedJson THEN {"json"} ELSE {})
            /\ saveFailed' = (saveFailed \/ ~savedWgsl \/ ~savedJson)
       ELSE /\ savedWgsl /\ savedJson
            /\ UNCHANGED <<files, saveFailed>>
    /\ UNCHANGED <<sampleVars, tintCalls, materialXFile, outputFolder,
                   device_, success, renderableElements, elem, stage, steps,
                   stepFailed, caught, runResult, validateVars,
                   pipelineSuccess_, exitCode>>

\* lines 768 to 783: step 4 is entered when there is a device and skipped
\* otherwise
RunValidate ==
    /\ mpc = "validate"
    /\ IF device_
       THEN /\ mpc' = "create_module"
            /\ UNCHANGED stage
       ELSE /\ mpc' = "stage"
            /\ stage' = stage + 1
    /\ UNCHANGED <<sampleVars, tintCalls, materialXFile, outputFolder,
                   device_, success, renderableElements, elem, steps, files,
                   stepFailed, saveFailed, caught, runResult, validateVars,
                   pipelineSuccess_, exitCode>>

\* warnings fail the validation like errors
CallbackSuccessStrict(status, messages) ==
    /\ status = "Success"
    /\ \A i \in 1..Len(messages) : messages[i] \notin {"Error", "Warning"}

\* lines 465 to 485: success as the callback leaves it
CallbackSuccess(status, messages) ==
    /\ status = "Success"
    /\ \A i \in 1..Len(messages) : messages[i] # "Error"

\* lines 463 to 486: the callback runs
RunCallback(status, messages) ==
    /\ done' = TRUE
    /\ validateSuccess' = CallbackSuccess(status, messages)
    /\ callback' = "ran"
    /\ info' = [status |-> status, messages |-> messages]

\* what the callback may be given: a status, and with Success the types of
\* the compilation messages
Statuses == {"Success", "CallbackCancelled"}
MessageTypes == {"Error", "Warning", "Info"}
Messages ==
    UNION {[1..n -> MessageTypes] : n \in 0..MaxMessages}

\* lines 450 to 459: the shader module is created; without one
\* ValidateWgslWithDawn returns false at once
ValidateCreate(ok) ==
    /\ mpc = "create_module"
    /\ module' = IF ok THEN "valid" ELSE "null"
    /\ validateSuccess' = TRUE
    /\ done' = FALSE
    /\ callback' = "none"
    /\ info' = NoInfo
    /\ mpc' = IF ok THEN "get_info" ELSE "validate_return"
    /\ UNCHANGED <<sampleVars, tintCalls, runVars, pipelineSuccess_,
                   exitCode>>

\* lines 461 to 486: GetCompilationInfo registers the callback, which with
\* AllowSpontaneous may run before the call returns
ValidateGetInfo(now, status, messages) ==
    /\ mpc = "get_info"
    /\ mpc' = "wait"
    /\ IF now
       THEN RunCallback(status, messages)
       ELSE /\ callback' = "pending"
            /\ status = "Success" /\ messages = <<>>
            /\ UNCHANGED <<done, validateSuccess, info>>
    /\ UNCHANGED <<sampleVars, tintCalls, runVars, module,
                   pipelineSuccess_, exitCode>>

\* lines 489 to 491: one turn of the loop, ProcessEvents, in which the
\* pending callback runs or does not
ValidateProcessEvents(delivered, status, messages) ==
    /\ mpc = "wait"
    /\ ~done
    /\ IF delivered
       THEN RunCallback(status, messages)
       ELSE /\ status = "Success" /\ messages = <<>>
            /\ UNCHANGED <<done, validateSuccess, callback, info>>
    /\ UNCHANGED <<sampleVars, mpc, tintCalls, runVars, module,
                   pipelineSuccess_, exitCode>>

\* line 493: the loop is left
ValidateLeave ==
    /\ mpc = "wait"
    /\ done
    /\ mpc' = "validate_return"
    /\ UNCHANGED <<sampleVars, tintCalls, runVars, validateVars,
                   pipelineSuccess_, exitCode>>

\* what ValidateWgslWithDawn returns, lines 454 and 493
ValidateResult == module = "valid" /\ validateSuccess

\* lines 773 to 783: Run takes the result of ValidateWgslWithDawn
ValidateReturn ==
    /\ mpc = "validate_return"
    /\ steps' = Append(steps, [step |-> "validate", ok |-> ValidateResult])
    /\ success' = AfterStep(success, ValidateResult)
    /\ stepFailed' = (stepFailed \/ ~ValidateResult)
    /\ mpc' = "stage"
    /\ stage' = stage + 1
    /\ UNCHANGED <<sampleVars, tintCalls, materialXFile, outputFolder,
                   device_, renderableElements, elem, files, saveFailed,
                   caught, runResult, validateVars, pipelineSuccess_,
                   exitCode>>

\* lines 786 to 789: the handler of the exceptions of the pipeline
RunCatch ==
    /\ mpc = "catch"
    /\ mpc' = "cleanup"
    /\ success' = FALSE
    /\ caught' = TRUE
    /\ UNCHANGED <<sampleVars, tintCalls, materialXFile, outputFolder,
                   device_, renderableElements, elem, stage, steps, files,
                   stepFailed, saveFailed, runResult, validateVars,
                   pipelineSuccess_, exitCode>>

\* lines 791 to 797: Tint is shut down and Run returns success
RunCleanup ==
    /\ mpc = "cleanup"
    /\ mpc' = "returned"
    /\ tintCalls' = Append(tintCalls, "Shutdown")
    /\ runResult' = success
    /\ UNCHANGED <<sampleVars, materialXFile, outputFolder, device_,
                   success, renderableElements, elem, stage, steps, files,
                   stepFailed, saveFailed, caught, validateVars,
                   pipelineSuccess_, exitCode>>

\* lines 833 to 836, 911 and 925: with a device the result is kept in
\* pipelineSuccess_ and main returns 0; lines 919 to 922: without one main
\* shuts Tint down and returns 0 or 1 by the result
MainReturn ==
    /\ mpc = "returned"
    /\ mpc' = "exited"
    /\ IF device_
       THEN /\ pipelineSuccess_' = runResult
            /\ exitCode' = 0
            /\ UNCHANGED tintCalls
       ELSE /\ tintCalls' = Append(tintCalls, "Shutdown")
            /\ exitCode' = IF runResult THEN 0 ELSE 1
            /\ UNCHANGED pipelineSuccess_
    /\ UNCHANGED <<sampleVars, runVars, validateVars>>

MtlxNext ==
    \/ \E file \in {"", "material.mtlx"}, folder \in {"", "shader_output"},
          help \in BOOLEAN :
          MainArgs(file, folder, help)
    \/ \E ok \in BOOLEAN : MainInitSample(ok)
    \/ \E created \in BOOLEAN : RunEnter(created)
    \/ \E outcome \in {"loaded", "load_error", "exception"} :
          RunLoad(outcome)
    \/ \E n \in 0..MaxElements : RunFind(n)
    \/ \E outcome \in {"shader", "null", "throws"} : RunElement(outcome)
    \/ \E outcome \in {"code", "empty", "exception"} : RunStage(outcome)
    \/ \E ok \in BOOLEAN : RunCompile(ok)
    \/ \E saved \in BOOLEAN : RunSaveGlsl(saved)
    \/ \E ok \in BOOLEAN : RunConvert(ok)
    \/ \E savedWgsl, savedJson \in BOOLEAN :
          RunSaveWgsl(savedWgsl, savedJson)
    \/ RunValidate
    \/ \E ok \in BOOLEAN : ValidateCreate(ok)
    \/ \E now \in BOOLEAN, status \in Statuses, messages \in Messages :
          ValidateGetInfo(now, status, messages)
    \/ \E delivered \in BOOLEAN, status \in Statuses,
          messages \in Messages :
          ValidateProcessEvents(delivered, status, messages)
    \/ ValidateLeave
    \/ ValidateReturn
    \/ RunCatch
    \/ RunCleanup
    \/ MainReturn

MtlxSpec == Init /\ [][MtlxNext]_vars

\* the pending callback runs in a turn of the loop of lines 489 to 491
CallbackDelivered ==
    \E status \in Statuses, messages \in Messages :
        ValidateProcessEvents(TRUE, status, messages)

\* the program when a pending callback is delivered in the end and the
\* loop, once done is set, is left
MtlxFairSpec ==
    /\ Init /\ [][MtlxNext]_vars
    /\ WF_vars(CallbackDelivered)
    /\ WF_vars(ValidateLeave)

\* ------------------------------------------------------------------------
\* properties

\* the segment counts a call with arguments a works with
ExpectedW(a) == IF a[2] < 3 THEN 3 ELSE a[2]
ExpectedH(a) == IF a[3] < 2 THEN 2 ELSE a[3]

\* the calls that have returned
Returned == {t \in Threads : pc[t] = "done"}

\* the position (x, y, z) of the vertex at ring r, column c of mesh m whose
\* rings have W + 1 columns
PositionAt(m, W, r, c) ==
    LET k == 9 * (r * (W + 1) + c)
    IN  <<m.vertices[k + 1], m.vertices[k + 2], m.vertices[k + 3]>>

C2_IndicesInRange ==
    \A t \in Returned :
        LET W == ExpectedW(args[t])
            H == ExpectedH(args[t])
        IN  \A k \in 1..Len(mesh[t].indices) :
                /\ 0 <= mesh[t].indices[k]
                /\ mesh[t].indices[k] < (W + 1) * (H + 1)

\* a returned mesh whose indices reach the last vertex
C2_Witness ==
    \E t \in Returned :
        \E k \in 1..Len(mesh[t].indices) :
            mesh[t].indices[k] =
                (ExpectedW(args[t]) + 1) * (ExpectedH(args[t]) + 1) - 1

\* C3: in a returned mesh the position at column W of every ring is, bit
\* for bit, the position at column 0 of that ring.
C3_SeamClosure ==
    \A t \in Returned :
        LET W == ExpectedW(args[t])
            H == ExpectedH(args[t])
        IN  \A r \in 0..H :
                PositionAt(mesh[t], W, r, W) = PositionAt(mesh[t], W, r, 0)

\* a perturbed mesh was returned: on an interior ring the seam position is
\* not the position of the column before it
C3_Witness ==
    \E t \in Returned :
        /\ args[t][1] = FOne /\ args[t][4] = FHalf
        /\ LET W == ExpectedW(args[t])
           IN  PositionAt(mesh[t], W, 1, W) # PositionAt(mesh[t], W, 1, W - 1)

\* C4: in a returned mesh every column 1..W-1 of ring 0 and of ring H holds
\* the position of column 0 of that ring; and for a finite nonzero radius
\* that position is not the one the working vertex held before the ring
\* (zero before ring 0, the seam position of ring H-1 before ring H).
C4_PoleCollapse ==
    \A t \in Returned :
        LET W == ExpectedW(args[t])
            H == ExpectedH(args[t])
            m == mesh[t]
        IN  /\ \A r \in {0, H} : \A c \in 1..(W - 1) :
                   PositionAt(m, W, r, c) = PositionAt(m, W, r, 0)
            /\ (IsFinite(args[t][1]) /\ ~IsZero(args[t][1])) =>
                   /\ PositionAt(m, W, 0, 0) # Vec3Zero
                   /\ PositionAt(m, W, H, 0) # PositionAt(m, W, H - 1, W)

\* a perturbed mesh was returned whose interior ring is not collapsed
C4_Witness ==
    \E t \in Returned :
        /\ args[t][1] = FOne /\ args[t][4] = FHalf
        /\ LET W == ExpectedW(args[t])
           IN  PositionAt(mesh[t], W, 1, 1) # PositionAt(mesh[t], W, 1, 0)

\* C5: a call returns the mesh that an earlier call with the same arguments
\* returned, whatever calls were made before or between them.
C5_Determinism ==
    (pc[1] = "done" /\ ref.args = args[1]) => mesh[1] = ref.mesh

\* a perturbed mesh was returned for the arguments of the kept one
C5_Witness ==
    /\ pc[1] = "done" /\ ref.args = args[1] /\ args[1][4] = FHalf
    /\ ExpectedH(args[1]) = 3
    /\ Len(mesh[1].vertices) > 0

\* the mesh a call with arguments a returns when it runs alone
Alone(a) == RunToReturn(Enter(a, mt19937(Seed), "none")).mesh

\* C6: with the steps of several invocations interleaved, each returns the
\* mesh that a call with the same arguments returns when it runs alone.
C6_ConcurrentSafety ==
    \A t \in Returned : mesh[t] = Alone(args[t])

\* an invocation with randomness has returned that ran interleaved with
\* another invocation with randomness
C6_Witness ==
    \E t \in Returned : \E o \in Threads \ {t} :
        /\ ~solo[t] /\ args[t][4] = FHalf
        /\ pc[o] \in {"vertex", "quad", "done"} /\ args[o][4] = FHalf

\* C7: no call of Sphere::create ends in an error.
C7_NeverFails == \A t \in Threads : pc[t] # "failed"

\* C8: a call works with max(3, w) and max(2, h), w and h unchanged when at
\* or above the minimum; and it returns the mesh that an earlier call with
\* the same radius and randomness and the same clamped counts returned.
C8_Clamping ==
    /\ pc[1] \notin {"idle", "failed"} =>
          /\ widthSegments[1] = ExpectedW(args[1])
          /\ heightSegments[1] = ExpectedH(args[1])
    /\ ( /\ pc[1] = "done"
         /\ ref # NoRef
         /\ ref.args[1] = args[1][1] /\ ref.args[4] = args[1][4]
         /\ ExpectedW(ref.args) = ExpectedW(args[1])
         /\ ExpectedH(ref.args) = ExpectedH(args[1]) )
       => mesh[1] = ref.mesh

\* a call with counts below the minimum returned after a call with the
\* minimum counts
C8_Witness ==
    /\ pc[1] = "done" /\ ref # NoRef
    /\ args[1][2] < 3 /\ args[1][3] < 2
    /\ ref.args = <<args[1][1], 3, 2, args[1][4]>>
    /\ Len(mesh[1].vertices) > 0

C10_UploadSizes ==
    /\ hello \in {"ready", "crashed"} =>
          vertexBuffer = Len(HelloSphere.mesh.vertices) * 4
    /\ hello = "ready" =>
          indexBuffer = Len(HelloSphere.mesh.indices) * 2

FGe(a, b) == FGt(a, b) \/ FEq(a, b)

\* the UV of the vertex at ring r, column c of mesh m whose rings have W + 1
\* columns
UVAt(m, W, r, c) ==
    LET k == 9 * (r * (W + 1) + c)
    IN  <<m.vertices[k + 8], m.vertices[k + 9]>>

\* C12: in a returned mesh the vertex at ring iy, column ix carries
\* UV = (ix/W + uOffset, 1 - iy/H) with uOffset = 0.5/W on ring 0, -0.5/W on
\* ring H and 0 on the other rings; u lies in [-0.5/W, 1 + 0.5/W] and v in
\* [0, 1]; and the seam column carries u = 1 + uOffset, not the u of
\* column 0.
C12_UVAssignment ==
    \A t \in Returned :
        LET W  == ExpectedW(args[t])
            H  == ExpectedH(args[t])
            fW == IntToFloat(W)
            fH == IntToFloat(H)
            lo == FDiv(FNeg(FHalf), fW)
            hi == FAdd(FOne, FDiv(FHalf, fW))
        IN  \A r \in 0..H :
                LET uo == IF r = 0 THEN FDiv(FHalf, fW)
                          ELSE IF r = H THEN FDiv(FNeg(FHalf), fW)
                          ELSE FZero
                IN  /\ \A c \in 0..W :
                           LET uv == UVAt(mesh[t], W, r, c)
                           IN  /\ uv[1] = FAdd(FDiv(IntToFloat(c), fW), uo)
                               /\ uv[2] = FSub(FOne, FDiv(IntToFloat(r), fH))
                               /\ FGe(uv[1], lo) /\ FGe(hi, uv[1])
                               /\ FGe(uv[2], FZero) /\ FGe(FOne, uv[2])
                    /\ UVAt(mesh[t], W, r, W)[1] = FAdd(FOne, uo)
                    /\ UVAt(mesh[t], W, r, W)[1] # UVAt(mesh[t], W, r, 0)[1]

\* a mesh with an interior ring was returned whose pole rings carry the
\* least and the greatest u
C12_Witness ==
    \E t \in Returned :
        /\ args[t][2] = 4 /\ args[t][3] = 3
        /\ UVAt(mesh[t], 4, 3, 0)[1] = FDiv(FNeg(FHalf), IntToFloat(4))
        /\ UVAt(mesh[t], 4, 0, 4)[1] = FAdd(FOne, FDiv(FHalf, IntToFloat(4)))
        /\ UVAt(mesh[t], 4, 1, 2) = <<FHalf, FSub(FOne, FDiv(FOne, IntToFloat(3)))>>

\* C13: a mesh returned for radius 0.0 has every position equal to
\* (0, 0, 0, 1) and every normal equal to (0, 0, 0) (float equality: a
\* component may be -0.0), and holds no NaN and no infinity.
C13_DegenerateRadius ==
    \A t \in Returned :
        args[t][1] = FZero =>
            LET vs == mesh[t].vertices
            IN  /\ \A i \in 1..Len(vs) : IsFinite(vs[i])
                /\ \A k \in 0..(Len(vs) \div 9 - 1) :
                       /\ \A j \in {1, 2, 3, 5, 6, 7} :
                              FEq(vs[9 * k + j], FZero)
                       /\ vs[9 * k + 4] = FOne

\* a mesh was returned for radius 0.0 and the randomness of greatest
\* magnitude
C13_Witness ==
    \E t \in Returned :
        /\ args[t] = <<FZero, 3, 2, FMax>>
        /\ Len(mesh[t].vertices) = 9 * 4 * 3

\* |a| on floats
FAbs(a) == IF IsNaN(a) THEN NaN ELSE <<0, a[2], a[3]>>

\* whether every vertex of ring r of mesh m (W + 1 columns) has a position
\* equal to p (float equality) followed by 1.0
RingAt(m, W, r, p) ==
    \A c \in 0..W :
        /\ \A j \in 1..3 : FEq(PositionAt(m, W, r, c)[j], p[j])
        /\ m.vertices[9 * (r * (W + 1) + c) + 4] = FOne

\* the call of the concrete scenario has returned on thread t
ScenarioReturned(t) == pc[t] = "done" /\ args[t] = <<FOne, 4, 2, FZero>>

\* C14 as stated: create(1.0, 4, 2, 0.0) returns 135 floats and 24 indices,
\* with every vertex of ring 0 at (0, 1, 0, 1) and every vertex of ring 2 at
\* (0, -1, 0, 1).
C14_ScenarioExact ==
    \A t \in Threads :
        ScenarioReturned(t) =>
            /\ Len(mesh[t].vertices) = 135
            /\ Len(mesh[t].indices) = 24
            /\ RingAt(mesh[t], 4, 0, <<FZero, FOne, FZero>>)
            /\ RingAt(mesh[t], 4, 2, <<FZero, FNeg(FOne), FZero>>)

\* C14, amended: create(1.0, 4, 2, 0.0) returns 135 floats and 24 indices,
\* with every vertex of ring 0 at (0, 1, 0, 1) and every vertex of ring 2 at
\* (x, -1, 0, 1), where x = -sin(float(pi)) is not 0 but at most 2^-23 in
\* magnitude.
C14_ScenarioWithinTolerance ==
    \A t \in Threads :
        ScenarioReturned(t) =>
            /\ Len(mesh[t].vertices) = 135
            /\ Len(mesh[t].indices) = 24
            /\ RingAt(mesh[t], 4, 0, <<FZero, FOne, FZero>>)
            /\ RingAt(mesh[t], 4, 2,
                      <<FNeg(Sinf(FPi)), FNeg(FOne), FZero>>)
            /\ ~FEq(Sinf(FPi), FZero)
            /\ FGe(<<0, -46, 8388608>>, FAbs(Sinf(FPi)))

\* the call of the concrete scenario has returned its 15 vertices
C14_Witness ==
    \E t \in Threads :
        ScenarioReturned(t) /\ Len(mesh[t].vertices) = 9 * 15

\* 1e-5 as a float
FTolerance == <<0, -40, 10995116>>

\* C15: in a mesh returned for randomness 0 and radius > 0, every component
\* of every normal is within 1e-5 of the position's component divided by
\* the radius.
C15_NormalCorrectness ==
    \A t \in Returned :
        (args[t][4] = FZero /\ FGt(args[t][1], FZero)) =>
            LET vs == mesh[t].vertices
            IN  \A k \in 0..(Len(vs) \div 9 - 1) : \A j \in 1..3 :
                    FGe(FTolerance,
                        FAbs(FSub(vs[9 * k + 4 + j],
                                  FDiv(vs[9 * k + j], args[t][1]))))

\* C16: after every processed quad of the index loop, and in the returned
\* mesh, the number of indices is a multiple of 3.
C16_WholeTriangles ==
    \A t \in Threads :
        /\ Len(indices[t]) % 3 = 0
        /\ Len(mesh[t].indices) % 3 = 0

\* the index loop stands between the first two quads of an interior row
C16_Witness ==
    \E t \in Threads :
        /\ pc[t] = "quad" /\ iy[t] = 1 /\ ix[t] = 1
        /\ heightSegments[t] = 3
        /\ Len(indices[t]) = 3 * (widthSegments[t] + 2)

\* triangles per quad of quad row r: (a, b, d) unless r = 0, (b, c, d)
\* unless r = H - 1
TrianglesOf(r, H) ==
    (IF r # 0 THEN 1 ELSE 0) + (IF r # H - 1 THEN 1 ELSE 0)

\* triangles per column of the quad rows before row r, r in 0..H
TrianglesAbove(r, H) ==
    IF r = 0 THEN 0 ELSE IF r < H THEN 2 * r - 1 ELSE 2 * (H - 1)

\* C17: quads are visited row by row, column by column; with
\* a = grid[iy][ix+1], b = grid[iy][ix], c = grid[iy+1][ix] and
\* d = grid[iy+1][ix+1], the quad appends (a, b, d) exactly when iy # 0 and
\* then (b, c, d) exactly when iy # H - 1, and nothing else.
C17_TriangleEmission ==
    \A t \in Threads :
        pc[t] \in {"quad", "done"} =>
            LET W   == widthSegments[t]
                H   == heightSegments[t]
                g   == grid[t]
                ind == IF pc[t] = "done" THEN mesh[t].indices ELSE indices[t]
                row == IF pc[t] = "done" THEN H ELSE iy[t]
                col == IF pc[t] = "done" THEN 0 ELSE ix[t]
            IN  /\ Len(ind)
                     = 3 * (W * TrianglesAbove(row, H)
                              + col * TrianglesOf(row, H))
                /\ \A r \in 0..(H - 1) : \A c \in 0..(W - 1) :
                       (r < row \/ (r = row /\ c < col)) =>
                           LET base == 3 * (W * TrianglesAbove(r, H)
                                              + c * TrianglesOf(r, H))
                               a == g[r + 1][c + 2]
                               b == g[r + 1][c + 1]
                               cc == g[r + 2][c + 1]
                               d == g[r + 2][c + 2]
                               upper == <<ind[base + 1], ind[base + 2],
                                          ind[base + 3]>>
                               lower == IF r # 0
                                        THEN <<ind[base + 4], ind[base + 5],
                                               ind[base + 6]>>
                                        ELSE upper
                           IN  /\ r # 0 => upper = <<a, b, d>>
                               /\ r # H - 1 => lower = <<b, cc, d>>

\* a mesh with an interior quad row was returned: its row 0 holds one
\* triangle per quad, its row 1 two
C17_Witness ==
    \E t \in Returned :
        /\ widthSegments[t] = 4 /\ heightSegments[t] = 3
        /\ <<mesh[t].indices[1], mesh[t].indices[2], mesh[t].indices[3]>>
             = <<0, 5, 6>>
        /\ <<mesh[t].indices[13], mesh[t].indices[14], mesh[t].indices[15],
             mesh[t].indices[16], mesh[t].indices[17], mesh[t].indices[18]>>
             = <<6, 5, 11, 5, 10, 11>>

\* the u offset of ring r: 0.5/W on ring 0, -0.5/W on ring H, 0 between
UVOffsetOf(r, W, H) ==
    IF r = 0 THEN FDiv(FHalf, IntToFloat(W))
    ELSE IF r = H THEN FDiv(FNeg(FHalf), IntToFloat(W))
    ELSE FZero

DrawsAbove(r, W, H) ==
    IF r = 0 THEN 0
    ELSE IF r <= H THEN 1 + (r - 1) * W
    ELSE 2 + (H - 1) * W

\* draws of the columns before column c of ring r, c in 0..W+1: column 0
\* only on a pole ring, columns 0..W-1 on an interior ring, never column W
DrawsLeft(r, c, W, H) ==
    IF r = 0 \/ r = H THEN (IF c = 0 THEN 0 ELSE 1)
    ELSE (IF c <= W THEN c ELSE W)

\* C19: a call has drawn from its generator once for each position computed
\* so far and never otherwise, in row-major order: on a pole ring at column
\* 0 only, on an interior ring at columns 0..W-1, never at the seam column;
\* 2 + (H-1) * W times when it returns.
C19_RandomDraws ==
    \A t \in Threads :
        LET W == widthSegments[t]
            H == heightSegments[t]
            n == rng[t].drawn
        IN  /\ pc[t] = "ring" => n = DrawsAbove(iy[t], W, H)
            /\ pc[t] = "vertex" =>
                   n = DrawsAbove(iy[t], W, H) + DrawsLeft(iy[t], ix[t], W, H)
            /\ pc[t] \in {"quad", "done"} => n = 2 + (H - 1) * W

\* a call with two interior rings of 4 columns has returned after 10 draws
C19_Witness ==
    \E t \in Returned :
        /\ widthSegments[t] = 4 /\ heightSegments[t] = 3
        /\ rng[t].drawn = 10

\* C20: every index appended for a quad is the grid vertex number it was
\* computed from: with a = grid[iy][ix+1], b = grid[iy][ix],
\* c = grid[iy+1][ix] and d = grid[iy+1][ix+1] as ints, the quad appends
\* a, b, d and b, c, d themselves, also when (W+1) * (H+1) > 65536.
C20_IndexFidelity ==
    quad # NoQuad =>
        LET b == quad.row * (quad.W + 1) + quad.column
            a == b + 1
            c == (quad.row + 1) * (quad.W + 1) + quad.column
            d == c + 1
        IN  quad.indices
              = (IF quad.row # 0 THEN <<a, b, d>> ELSE <<>>)
                \o (IF quad.row # quad.H - 1 THEN <<b, c, d>> ELSE <<>>)

\* the vertex numbers that the index list of mesh m names
Referenced(m) == {m.indices[i] : i \in 1..Len(m.indices)}

\* C21: every vertex of a returned mesh is named by at least one entry of
\* indices.
C21_EveryVertexReferenced ==
    \A t \in Returned :
        \A n \in 0..((Len(mesh[t].vertices) \div 9) - 1) :
            n \in Referenced(mesh[t])

\* C21 as amended: of the (W+1) * (H+1) vertices of a returned mesh exactly
\* two are named by no entry of indices, the last vertex of ring 0 (number
\* W) and the first vertex of ring H (number H * (W+1)); every other vertex
\* is named by at least one entry.
C21_AllButTwoReferenced ==
    \A t \in Returned :
        LET W == ExpectedW(args[t])
            H == ExpectedH(args[t])
        IN  Referenced(mesh[t])
              = (0..((W + 1) * (H + 1) - 1)) \ {W, H * (W + 1)}

\* a call has returned a 4 x 3 mesh of 20 vertices whose indices name the
\* vertices next to the two left out (3 of ring 0, 16 of ring 3)
C21_Witness ==
    \E t \in Returned :
        /\ ExpectedW(args[t]) = 4 /\ ExpectedH(args[t]) = 3
        /\ Len(mesh[t].vertices) = 9 * 20
        /\ {3, 16} \subseteq Referenced(mesh[t])
        /\ Referenced(mesh[t]) \cap {4, 15} = {}

\* the compared call has returned for both seeds
SeededReturned == seeded.mesh # NoSeeded.mesh

\* the randomness of the compared call is zero (0.0f or -0.0f)
NoRandomness == FEq(seeded.args[4], FZero)

\* sequences of floats equal as floats: the same length, and each pair of
\* components both NaN or equal under ==, which holds 0.0f and -0.0f equal
SameFloats(p, q) ==
    /\ Len(p) = Len(q)
    /\ \A i \in 1..Len(p) : (IsNaN(p[i]) /\ IsNaN(q[i])) \/ FEq(p[i], q[i])

\* C22: with randomness = 0 the mesh returned does not depend on the random
\* sequence: for the same radius and segment counts the vertices and
\* indices returned for two seeds are identical.
C22_SeedIndependence ==
    (SeededReturned /\ NoRandomness) =>
        \A s1, s2 \in Seeds : seeded.mesh[s1] = seeded.mesh[s2]

\* C22 as amended: with randomness = 0 the meshes returned for two seeds
\* have identical indices and vertices equal as floats, and are identical
\* bit for bit unless the radius is -0.0f.
C22_SeedIndependenceButZeroSigns ==
    (SeededReturned /\ NoRandomness) =>
        \A s1, s2 \in Seeds :
            /\ seeded.mesh[s1].indices = seeded.mesh[s2].indices
            /\ SameFloats(seeded.mesh[s1].vertices, seeded.mesh[s2].vertices)
            /\ seeded.args[1] # FNeg(FZero)
                   => seeded.mesh[s1] = seeded.mesh[s2]

\* the call with radius 1, 4 x 3 segments and no randomness has returned
\* the same 20 vertices for both seeds, and the generators have been drawn
\* from: with randomness 0.5 the same call would differ in its first vertex
C22_Witness ==
    /\ SeededReturned
    /\ seeded.args = <<FOne, 4, 3, FZero>>
    /\ Len(seeded.mesh[Seed].vertices) = 9 * 20
    /\ \A s \in Seeds : seeded.mesh[s] = seeded.mesh[Seed]
    /\ \E s \in Seeds :
           Displaced(FOne, ValuesOf(s)[1], FHalf)
             # Displaced(FOne, ValuesOf(Seed)[1], FHalf)

\* the floats of vertices that start at byte offset and number count
FloatsAt(t, offset, count) ==
    SubSeq(vertices[t], offset \div SizeofFloat + 1,
           offset \div SizeofFloat + count)

\* C23: the constants of SphereLayout describe the records that
\* Sphere::create appends: after a vertex is appended, vertices holds
\* vertexStride bytes per vertex, and in the record that was just appended
\* the position starts at positionsOffset, the normal at normalOffset and
\* the UV at uvOffset.
C23_LayoutConstants ==
    \A t \in Threads :
        (pc[t] = "vertex" /\ ix[t] > 0) =>
            LET record == (Len(vertices[t]) \div index[t]) * SizeofFloat
                base == (index[t] - 1) * record
            IN  /\ vertexStride = record
                /\ Len(vertices[t]) * SizeofFloat = index[t] * vertexStride
                /\ FloatsAt(t, base + positionsOffset, 3) = vertex[t]
                /\ FloatsAt(t, base + normalOffset, 3) = normal[t]
                /\ FloatsAt(t, base + uvOffset, 2)
                     = << FAdd(FDiv(IntToFloat(ix[t] - 1),
                                    IntToFloat(widthSegments[t])),
                               uOffset[t]),
                          FSub(FOne, v[t]) >>

\* the steps of the header comment (lines 33 to 35) in their order
PipelineOrder == <<"compile", "convert", "validate">>

\* the last step run for this stage has failed
LastStepFailed(s) == Len(s) > 0 /\ ~s[Len(s)].ok

\* C24: for each element and stage with code the steps run in the order
\* GLSL-to-SPIRV compile, SPIRV-to-WGSL convert, Dawn validation; no step
\* and no file output follows a step that failed (a .glsl file is saved
\* only after a successful compile, a .wgsl or bindings file only after a
\* successful convert); and after a failed compile or convert the loop goes
\* on with the next stage of the same element.
C24_PipelineOrdering ==
    /\ [](/\ Len(steps) <= Len(PipelineOrder)
          /\ \A i \in 1..Len(steps) :
                 /\ steps[i].step = PipelineOrder[i]
                 /\ i < Len(steps) => steps[i].ok
          /\ "glsl" \in files => (Len(steps) >= 1 /\ steps[1].ok)
          /\ files \cap {"wgsl", "json"} # {}
                 => (Len(steps) >= 2 /\ steps[2].ok))
    /\ [][(mpc \in {"compile", "convert"} /\ LastStepFailed(steps'))
              => /\ mpc' = "stage"
                 /\ stage' = stage + 1
                 /\ elem' = elem
                 /\ files' = files]_vars

\* the pixel stage of the first element has compiled after a step of its
\* vertex stage failed, and the vertex stage's files are behind it
C24_Witness ==
    /\ mpc = "save_glsl"
    /\ elem = 1 /\ stage = 2
    /\ stepFailed /\ ~success
    /\ steps = <<[step |-> "compile", ok |-> TRUE]>>
    /\ files = {}

\* Run has returned to main
RunReturned == mpc \in {"returned", "exited"} /\ Len(tintCalls) > 0

\* C25: Run returns true if and only if a renderable element was found, no
\* exception reached the handler, and no generation, compile, convert or
\* validation step failed; a failure to create the output directory or to
\* save a file does not enter into it, and without a device no validation
\* step runs.
C25_RunResult ==
    /\ RunReturned =>
           (runResult <=> (/\ renderableElements > 0
                           /\ ~caught
                           /\ ~stepFailed))
    /\ ~device_ =>
           \A i \in 1..Len(steps) : steps[i].step # "validate"

\* Run has returned true without a device although the directory or a file
\* could not be written, the last stage having run compile and convert only
C25_Witness ==
    /\ mpc = "returned"
    /\ runResult
    /\ saveFailed
    /\ ~device_
    /\ outputFolder # ""
    /\ Len(steps) = 2

\* how many of the first k calls of Tint are calls of name
TintCount(name, k) == Cardinality({i \in 1..k : tintCalls[i] = name})

\* C26: on every path of the program each tint::Initialize is followed by
\* exactly one matching tint::Shutdown and no Shutdown comes without an
\* Initialize still open: at no time have there been more Shutdown than
\* Initialize calls, and when main returns there have been as many.
C26_TintPairing ==
    /\ \A k \in 1..Len(tintCalls) :
           TintCount("Shutdown", k) <= TintCount("Initialize", k)
    /\ mpc = "exited" =>
           TintCount("Shutdown", Len(tintCalls))
             = TintCount("Initialize", Len(tintCalls))

\* C27: whenever Run has returned false, main returns a non-zero exit code,
\* with a Dawn device and without one.
C27_ExitCode ==
    (mpc = "exited" /\ RunReturned /\ ~runResult) => exitCode # 0

\* ValidateWgslWithDawn is about to return
ValidateReturning == mpc = "validate_return"

\* the callback was given a status other than Success or a message of type
\* Error
ReportedError ==
    \/ info.status # "Success"
    \/ \E i \in 1..Len(info.messages) : info.messages[i] = "Error"

\* C28: ValidateWgslWithDawn returns only after the compilation-info
\* callback has run, and it returns false exactly when module creation
\* failed, the status was not Success or a message has type Error.
C28_ReturnsAfterCallback ==
    ValidateReturning =>
        /\ callback = "ran"
        /\ ~ValidateResult <=> (module = "null" \/ ReportedError)

\* C28 as amended: when the module was created ValidateWgslWithDawn returns
\* only after the callback has run and set done, and when it was not it
\* returns false at once without asking for the compilation info; once in
\* the loop it leaves it, provided the callback is delivered; it returns
\* false exactly when module creation failed, the status was not Success or
\* a message has type Error, so never for warnings alone.
C28_ReturnsAfterCallbackOrNoModule ==
    /\ [](ValidateReturning =>
             /\ module = "valid" => (callback = "ran" /\ done)
             /\ module = "null" => (callback = "none" /\ ~ValidateResult)
             /\ ~ValidateResult <=> (module = "null" \/ ReportedError))
    /\ (mpc = "wait") ~> ValidateReturning

\* ValidateWgslWithDawn returns true after a callback that was given a
\* warning and no error
C28_Witness ==
    /\ ValidateReturning
    /\ module = "valid"
    /\ callback = "ran"
    /\ info = [status |-> "Success", messages |-> <<"Warning", "Info">>]
    /\ ValidateResult

====
